---- MODULE Spec2Model ----
(***************************************************************************)
(* Webhook dispatch layer of app-dols-capital.                             *)
(*                                                                         *)
(* WebhookService (project/src/services/WebhookService.ts) is a process-   *)
(* wide singleton with four private fields (configs, lastFetch,            *)
(* fetchPromise, lastEventTimes).  Its public operations are async         *)
(* functions running on one cooperative event loop: every action below is  *)
(* the code that runs between two suspension points (await) of one call.   *)
(***************************************************************************)
EXTENDS Integers, Sequences, FiniteSets, TLC

(***************************************************************************)
(* Bounds of the model.                                                    *)
(***************************************************************************)
\* send() calls made in one behaviour (calls may overlap in time)
MaxCalls == 2
\* send() calls made in one behaviour of the throttle-window specification
MaxWindowCalls == 3
\* clock steps taken in one behaviour
MaxTicks == 2
\* milliseconds added to Date.now() by one clock step
TickMs == 150000
\* Date.now() at the start of a behaviour: any instant later than every
\* throttle interval and than the cache lifetime after the epoch behaves
\* alike (lastFetch and the throttle default are both 0, the epoch)
StartTime == 1000000000

Calls == 1..MaxCalls
WindowCalls == 1..MaxWindowCalls

(***************************************************************************)
(* Program constants.                                                      *)
(***************************************************************************)
\* getConfigs: 5 * 60 * 1000
CacheTtlMs == 300000

\* type EventType
EventTypes ==
    { "client_created", "client_updated", "client_status_changed",
      "proposal_created", "proposal_updated", "proposal_status_changed",
      "pipeline_status_changed" }

\* the synthetic identity given to the legacy settings/webhook document
LegacyIdentity == [id |-> "default", name |-> "Webhook Padrão"]

(***************************************************************************)
(* Destination documents as the store holds them (Firestore is schemaless: *)
(* a document may lack the events or the throttle object).                  *)
(***************************************************************************)
Events(K) ==
    [ clients   |-> [ created       |-> "client_created" \in K,
                      updated       |-> "client_updated" \in K,
                      statusChanged |-> "client_status_changed" \in K ],
      proposals |-> [ created       |-> "proposal_created" \in K,
                      updated       |-> "proposal_updated" \in K,
                      statusChanged |-> "proposal_status_changed" \in K ],
      pipeline  |-> [ statusChanged |-> "pipeline_status_changed" \in K ] ]

Throttle(on, seconds) == [enabled |-> on, interval |-> seconds]

Doc(name, url, on, K, th) ==
    [ name |-> name, url |-> url, enabled |-> on, secret |-> "s-" \o name,
      events |-> Events(K), throttle |-> th ]

\* a document written without its throttle object
DocNoThrottle(name, url, on, K) ==
    [ name |-> name, url |-> url, enabled |-> on, secret |-> "s-" \o name,
      events |-> Events(K) ]

\* a document written without its events object
DocNoEvents(name, url, on, th) ==
    [ name |-> name, url |-> url, enabled |-> on, secret |-> "s-" \o name,
      throttle |-> th ]

\* a legacy settings/webhook document: no id, no name
LegacyDoc(url, on, K, th) ==
    [ url |-> url, enabled |-> on, secret |-> "s-legacy",
      events |-> Events(K), throttle |-> th ]

HasField(r, f) == f \in DOMAIN r


(***************************************************************************)
(* fetchConfigs: what the two store reads are turned into.                 *)
(***************************************************************************)
\* { id: doc.id, ...doc.data() }: a later spread key wins
WithDocId(d) == d.data @@ [id |-> d.id]

\* querySnapshot.docs.map(...)
CollectionResult(docs) == [i \in 1..Len(docs) |-> WithDocId(docs[i])]

\* { id: 'default', name: 'Webhook Padrão', ...oldConfig }
UpgradeLegacy(oldConfig) == oldConfig @@ LegacyIdentity

\* oldDocSnap.exists() ? [upgraded] : []   (legacy is <<>> or <<document>>)
LegacyResult(legacy) ==
    IF Len(legacy) > 0 THEN << UpgradeLegacy(legacy[1]) >> ELSE << >>

\* mutant of ConsultLegacy: the legacy document is read whatever the
\* collection holds
ConsultLegacyAlways(docs) == TRUE

\* querySnapshot.empty
ConsultLegacy(docs) == Len(docs) = 0

\* mutant of OnFetchError: a failed read falls back on the cached list
OnFetchErrorStale(cached) == cached

\* catch (error) { ...; return []; }   (cached: this.configs, not used)
OnFetchError(cached) == << >>

(***************************************************************************)
(* getConfigs: which of its three paths a call takes.                      *)
(***************************************************************************)
\* mutant of GetConfigsPath: the in-flight promise is not looked at
GetConfigsPathNoJoin(cfgs, last, promise, t) ==
    IF Len(cfgs) > 0 /\ t - last < CacheTtlMs THEN "cache" ELSE "fetch"

\* mutant of GetConfigsPath: the cache lifetime is taken as 5 * 60, in
\* milliseconds
GetConfigsPathSeconds(cfgs, last, promise, t) ==
    IF Len(cfgs) > 0 /\ t - last < 5 * 60 THEN "cache"
    ELSE IF promise # 0 THEN "join"
    ELSE "fetch"

\* mutant of GetConfigsPath: an empty list is served from the cache too
GetConfigsPathCachesEmpty(cfgs, last, promise, t) ==
    IF t - last < CacheTtlMs THEN "cache"
    ELSE IF promise # 0 THEN "join"
    ELSE "fetch"

GetConfigsPath(cfgs, last, promise, t) ==
    IF Len(cfgs) > 0 /\ t - last < CacheTtlMs THEN "cache"
    ELSE IF promise # 0 THEN "join"
    ELSE "fetch"

(***************************************************************************)
(* getEnabledWebhooksForEvent: the filter over the resolved configuration. *)
(***************************************************************************)
EventFlag(config, eventType) ==
    IF eventType = "client_created" THEN config.events.clients.created
    ELSE IF eventType = "client_updated" THEN config.events.clients.updated
    ELSE IF eventType = "client_status_changed"
         THEN config.events.clients.statusChanged
    ELSE IF eventType = "proposal_created" THEN config.events.proposals.created
    ELSE IF eventType = "proposal_updated" THEN config.events.proposals.updated
    ELSE IF eventType = "proposal_status_changed"
         THEN config.events.proposals.statusChanged
    ELSE IF eventType = "pipeline_status_changed"
         THEN config.events.pipeline.statusChanged
    ELSE FALSE

\* the filter callback reads config.events only past the enabled/url test:
\* on a document without events that read is a TypeError
CallbackThrows(config) ==
    config.enabled /\ config.url # "" /\ ~HasField(config, "events")

FilterThrows(cfgs) == \E i \in 1..Len(cfgs) : CallbackThrows(cfgs[i])

FilterCallback(config, eventType) ==
    IF ~config.enabled \/ config.url = "" THEN FALSE
    ELSE EventFlag(config, eventType)

EnabledWebhooksForEvent(cfgs, eventType) ==
    SelectSeq(cfgs, LAMBDA config : FilterCallback(config, eventType))

(***************************************************************************)
(* shouldThrottle and the synchronous head of sendToWebhook.               *)
(***************************************************************************)
\* `${config.id}:${eventType}:${entityId}`
EventKey(config, eventType, entityId) ==
    config.id \o ":" \o eventType \o ":" \o entityId

\* this.lastEventTimes.get(eventKey) || 0
LastTime(times, key) == IF key \in DOMAIN times THEN times[key] ELSE 0

\* mutant of MarkEvent: the timestamp is not written
MarkEventNever(times, key, t) == times

\* this.lastEventTimes.set(eventKey, now)
MarkEvent(times, key, t) == (key :> t) @@ times

\* mutant of IntervalMs: the interval is compared as if in milliseconds
IntervalUnscaled(config) == config.throttle.interval

\* config.throttle.interval * 1000   (the interval is stored in seconds)
IntervalMs(config) == config.throttle.interval * 1000

\* mutant of BranchStart: the throttle test is made in the synchronous head
\* but the timestamp is left to be written after the response
BranchStartStampLater(config, eventType, entityId, times, t) ==
    IF ~HasField(config, "throttle")
    THEN [state |-> "threw", times |-> times]
    ELSE IF ~config.throttle.enabled
    THEN [state |-> "inflight", times |-> times]
    ELSE IF t - LastTime(times, EventKey(config, eventType, entityId))
              < IntervalMs(config)
    THEN [state |-> "throttled", times |-> times]
    ELSE [state |-> "inflight", times |-> times]

\* mutant of BranchStart: a suppressed call also stamps its key (a sliding
\* window)
BranchStartSliding(config, eventType, entityId, times, t) ==
    IF ~HasField(config, "throttle")
    THEN [state |-> "threw", times |-> times]
    ELSE IF ~config.throttle.enabled
    THEN [state |-> "inflight", times |-> times]
    ELSE IF t - LastTime(times, EventKey(config, eventType, entityId))
              < IntervalMs(config)
    THEN [state |-> "throttled",
          times |-> MarkEvent(times, EventKey(config, eventType, entityId), t)]
    ELSE [state |-> "inflight",
          times |-> MarkEvent(times, EventKey(config, eventType, entityId), t)]

\* One sendToWebhook call up to its first await: "threw" (no throttle object
\* to read), "throttled" (returns false), or "inflight" (fetch() issued).
BranchStart(config, eventType, entityId, times, t) ==
    IF ~HasField(config, "throttle")
    THEN [state |-> "threw", times |-> times]
    ELSE IF ~config.throttle.enabled
    THEN [state |-> "inflight", times |-> times]
    ELSE IF t - LastTime(times, EventKey(config, eventType, entityId))
              < IntervalMs(config)
    THEN [state |-> "throttled", times |-> times]
    ELSE [state |-> "inflight",
          times |-> MarkEvent(times, EventKey(config, eventType, entityId), t)]

\* mutant of FanOutFrom: only the first destination is started; the others
\* wait for its answer and are never started
FanOutFromFirstOnly(i, enabled, eventType, entityId, times, t) ==
    IF i > Len(enabled) THEN [branches |-> << >>, times |-> times]
    ELSE LET b == BranchStart(enabled[i], eventType, entityId, times, t)
         IN  [ branches |-> << b.state >>
                            \o [j \in 1..(Len(enabled) - i) |-> "waiting"],
               times |-> b.times ]

\* enabledWebhooks.map(config => this.sendToWebhook(...)): the branches are
\* started one after the other, in order, with no await in between
RECURSIVE FanOutFrom(_, _, _, _, _, _)
FanOutFrom(i, enabled, eventType, entityId, times, t) ==
    IF i > Len(enabled) THEN [branches |-> << >>, times |-> times]
    ELSE LET b    == BranchStart(enabled[i], eventType, entityId, times, t)
             rest == FanOutFrom(i + 1, enabled, eventType, entityId, b.times, t)
         IN  [branches |-> << b.state >> \o rest.branches, times |-> rest.times]

\* the request sendToWebhook hands to fetch()
Post(c, i, config, eventType, data, t) ==
    [ call |-> c, idx |-> i, id |-> config.id, url |-> config.url,
      secret |-> config.secret,
      body |-> [event |-> eventType, timestamp |-> t, data |-> data] ]

\* mutant of OnResponse: a failed answer also fails the sibling requests
\* still in flight
OnResponseAbortSiblings(branches, i, ok) ==
    [ j \in 1..Len(branches) |->
        IF j = i THEN (IF ok THEN "true" ELSE "false")
        ELSE IF ~ok /\ branches[j] = "inflight" THEN "false"
        ELSE branches[j] ]

\* what one sendToWebhook returns once its response is in
OnResponse(branches, i, ok) ==
    [branches EXCEPT ![i] = IF ok THEN "true" ELSE "false"]

\* results.some(result => result === true)
SendResult(branches) ==
    IF \E i \in 1..Len(branches) : branches[i] = "true" THEN "true" ELSE "false"

(***************************************************************************)
(* The seven public wrappers: the event type, data and entity id each      *)
(* hands to send().                                                        *)
(***************************************************************************)
SendArgs(op, payload, previousStatus) ==
    IF op = "sendClientCreated"
    THEN [eventType |-> "client_created", data |-> payload, entityId |-> payload.id]
    ELSE IF op = "sendClientUpdated"
    THEN [eventType |-> "client_updated", data |-> payload, entityId |-> payload.id]
    ELSE IF op = "sendClientStatusChanged"
    THEN [eventType |-> "client_status_changed",
          data |-> [previousStatus |-> previousStatus,
                    newStatus |-> payload.status] @@ payload,
          entityId |-> payload.id]
    ELSE IF op = "sendProposalCreated"
    THEN [eventType |-> "proposal_created", data |-> payload, entityId |-> payload.id]
    ELSE IF op = "sendProposalUpdated"
    THEN [eventType |-> "proposal_updated", data |-> payload, entityId |-> payload.id]
    ELSE IF op = "sendProposalStatusChanged"
    THEN [eventType |-> "proposal_status_changed",
          data |-> [previousStatus |-> previousStatus,
                    newStatus |-> payload.status] @@ payload,
          entityId |-> payload.id]
    ELSE [eventType |-> "pipeline_status_changed", data |-> payload,
          entityId |-> payload.proposalId]


(***************************************************************************)
(* Inputs: the stores a behaviour may start from and the calls made.       *)
(***************************************************************************)
Ops ==
    { "sendClientCreated", "sendClientUpdated", "sendClientStatusChanged",
      "sendProposalCreated", "sendProposalUpdated", "sendProposalStatusChanged",
      "sendPipelineStatusChanged" }

\* the wrappers called under Spec (SpecElig calls all seven)
MainOps == { "sendClientUpdated", "sendClientStatusChanged" }

EntityIds == { "e1" }

PreviousStatuses == { "pending" }

\* the record a wrapper is called with
Payload(op, e) ==
    IF op = "sendPipelineStatusChanged"
    THEN [proposalId |-> e, previousStatus |-> "submitted", newStatus |-> "credit"]
    ELSE [id |-> e, status |-> "approved"]

Stored(id, data) == [id |-> id, data |-> data]

\* throttle settings: off; 200 s (longer than one clock step, shorter than two)
ThrottleOff == Throttle(FALSE, 200)
ThrottleOn  == Throttle(TRUE, 200)

DocA == Doc("A", "https://a", TRUE, EventTypes, ThrottleOn)

\* single-destination collections: every combination of the eligibility
\* fields and the throttle switch, a destination taking both event kinds
\* called under Spec, and the two incomplete documents
SingleDocs ==
    { Doc("A", url, on, {"client_updated"}, th) :
        url \in {"", "https://a"}, on \in BOOLEAN,
        th \in { ThrottleOff, ThrottleOn } }
    \cup { DocA,
           DocNoThrottle("A", "https://a", TRUE, EventTypes),
           DocNoEvents("A", "https://a", TRUE, ThrottleOff) }

\* collections of two destinations
PairDocs ==
    { << Doc("A", "https://a", TRUE, {"client_updated"}, ThrottleOn),
         Doc("B", "https://b", TRUE, {"client_updated"}, ThrottleOn) >>,
      << DocA, DocNoThrottle("B", "https://b", TRUE, EventTypes) >>,
      << DocA, DocNoEvents("B", "https://b", TRUE, ThrottleOff) >> }

LegacyDocs == { LegacyDoc("https://old", TRUE, {"client_updated"}, ThrottleOn) }

Stores ==
    { [webhooks |-> << >>, legacy |-> << >>] }
    \cup { [webhooks |-> << >>, legacy |-> << l >>] : l \in LegacyDocs }
    \cup { [webhooks |-> << Stored("A", a) >>, legacy |-> << >>] : a \in SingleDocs }
    \cup { [webhooks |-> << Stored("A", DocA) >>, legacy |-> << l >>] :
             l \in LegacyDocs }
    \cup { [webhooks |-> << Stored("A", ab[1]), Stored("B", ab[2]) >>,
            legacy |-> << >>] : ab \in PairDocs }

(***************************************************************************)
(* State.                                                                  *)
(***************************************************************************)
VARIABLES
    store,           \* Firestore: the webhooks collection, settings/webhook
    now,             \* Date.now()
    configs,         \* WebhookService.configs
    lastFetch,       \* WebhookService.lastFetch
    fetchPromise,    \* WebhookService.fetchPromise: 0 (null) or the call
                     \* whose fetchConfigs() it is the promise of
    lastEventTimes,  \* WebhookService.lastEventTimes
    calls,           \* the send() calls: position and locals of each
    posts,           \* the requests handed to fetch()
    responses,       \* the answers the network gave to them
    storeLog         \* the store reads started and the fetches completed

\* The Change Monitor (useWebhookTrigger) and what surrounds it.
VARIABLES
    user,                    \* useAuth().user at the last render (NoUser: null)
    mounted,                 \* the component calling the hook is mounted
    effect,                  \* the effect of the last commit: its dependencies
                             \* and the unsubscribes array of its closure
    listeners,               \* the live onSnapshot listeners
    docs,                    \* Firestore: the clients and proposals collections
    previousClientStates,    \* previousClientStates.current
    previousProposalStates,  \* previousProposalStates.current
    notified,                \* the change notifications delivered, in order
    handlers,                \* the activations of the two snapshot callbacks
    dispatched,              \* the Dispatcher calls the Monitor made, in order
    counters                 \* user objects, listeners, writes made so far

mvars == << user, mounted, effect, listeners, docs, previousClientStates,
            previousProposalStates, notified, handlers, dispatched, counters >>

dvars == << store, now, configs, lastFetch, fetchPromise, lastEventTimes,
            calls, posts, responses, storeLog >>

vars == << store, now, configs, lastFetch, fetchPromise, lastEventTimes,
           calls, posts, responses, storeLog,
           user, mounted, effect, listeners, docs, previousClientStates,
           previousProposalStates, notified, handlers, dispatched, counters >>

\* null
NoUser == [ref |-> 0, id |-> "", name |-> "", role |-> ""]

\* no record observed, no effect run with listeners
NoState == [none |-> TRUE]

\* the hook as mounted under a signed-out session: the effect returned at
\* its guard, the two maps are new
InitMonitor ==
    /\ user = NoUser
    /\ mounted = TRUE
    /\ effect = [isAuthorized |-> FALSE, user |-> NoUser, unsubscribes |-> {}]
    /\ listeners = {}
    /\ previousClientStates = << >>
    /\ previousProposalStates = << >>
    /\ notified = << >>
    /\ handlers = << >>
    /\ dispatched = << >>
    /\ counters = [users |-> 0, listeners |-> 0, writes |-> 0]

NoDocs == [clients |-> << >>, proposals |-> << >>]

\* a call not yet made.  pc: idle, getDocs, getDoc (the caller runs
\* fetchConfigs and awaits that read), awaitFetch (awaits another caller's
\* fetchPromise), resolved (holds the configuration, continuation queued),
\* awaitHttp, done.  at: Date.now() when the call fanned out.
IdleCall ==
    [ pc |-> "idle", eventType |-> "", data |-> << >>, entityId |-> "",
      cfgs |-> << >>, enabled |-> << >>, branches |-> << >>,
      result |-> "pending", joined |-> 0, at |-> 0 ]

InitService ==
    /\ now = StartTime
    /\ configs = << >>
    /\ lastFetch = 0
    /\ fetchPromise = 0
    /\ lastEventTimes = << >>
    /\ calls = [c \in Calls |-> IdleCall]
    /\ posts = {}
    /\ responses = {}
    /\ storeLog = << >>

Init == store \in Stores /\ InitService /\ InitMonitor /\ docs = NoDocs

Settled(call) ==
    \A i \in 1..Len(call.branches) : call.branches[i] # "inflight"

\* A continuation is queued (a promise the call awaits is already settled).
\* The event loop runs queued continuations to completion before it takes
\* the next network answer, store answer or timer.
MicrotasksPending ==
    \/ \E c \in DOMAIN calls :
         \/ calls[c].pc = "resolved"
         \/ calls[c].pc = "awaitHttp" /\ Settled(calls[c])
    \/ \E k \in 1..Len(dispatched) :
         dispatched[k].state = "pending" /\ calls[dispatched[k].call].pc = "done"

(***************************************************************************)
(* Actions: one per stretch of code between two awaits.                    *)
(***************************************************************************)
\* A public wrapper is called with arguments a as call c: wrapper, send,
\* getEnabledWebhooksForEvent and getConfigs run up to the first await.
\* d: the calls, fetchPromise and the store reads so far.
SendStarted(d, c, a) ==
    LET path == GetConfigsPath(configs, lastFetch, d.fetchPromise, now)
        call == [ IdleCall EXCEPT !.eventType = a.eventType,
                                  !.data = a.data,
                                  !.entityId = a.entityId ]
    IN  [ calls |->
            [ d.calls EXCEPT ![c] =
                IF path = "cache"
                THEN [call EXCEPT !.pc = "resolved", !.cfgs = configs]
                ELSE IF path = "join"
                THEN [call EXCEPT !.pc = "awaitFetch", !.joined = d.fetchPromise]
                ELSE [call EXCEPT !.pc = "getDocs"] ],
          fetchPromise |-> IF path = "fetch" THEN c ELSE d.fetchPromise,
          storeLog |->
            IF path = "fetch"
            THEN Append(d.storeLog,
                        [ev |-> "getDocs", call |-> c, t |-> now, n |-> 0, ok |-> TRUE])
            ELSE d.storeLog ]

StartSend(c, op, e, prev) ==
    /\ calls[c].pc = "idle"
    /\ c > 1 => calls[c - 1].pc # "idle"
    /\ LET r == SendStarted([calls |-> calls, fetchPromise |-> fetchPromise,
                             storeLog |-> storeLog],
                            c, SendArgs(op, Payload(op, e), prev))
       IN  /\ calls' = r.calls
           /\ fetchPromise' = r.fetchPromise
           /\ storeLog' = r.storeLog
    /\ UNCHANGED << store, now, configs, lastFetch, lastEventTimes, posts, responses >>
    /\ UNCHANGED mvars

\* fetchConfigs of call c returns `result` (ok: no read failed): getConfigs
\* stores it, stamps lastFetch, clears fetchPromise; the callers awaiting
\* that promise get it.
Resolve(c, result, ok) ==
    /\ configs' = result
    /\ lastFetch' = now
    /\ fetchPromise' = 0
    /\ calls' =
         [ d \in DOMAIN calls |->
             IF d = c \/ (calls[d].pc = "awaitFetch" /\ calls[d].joined = c)
             THEN [calls[d] EXCEPT !.pc = "resolved", !.cfgs = result]
             ELSE calls[d] ]
    /\ storeLog' =
         Append(storeLog,
                [ev |-> "fetched", call |-> c, t |-> now, n |-> Len(result),
                 ok |-> ok])

\* getDocs(query(webhooksRef)) answers (ok) or fails
GetDocsReturn(c, ok) ==
    /\ calls[c].pc = "getDocs"
    /\ ~MicrotasksPending
    /\ IF ~ok THEN Resolve(c, OnFetchError(configs), FALSE)
       ELSE IF ConsultLegacy(store.webhooks)
       THEN /\ calls' = [calls EXCEPT ![c].pc = "getDoc"]
            /\ storeLog' =
                 Append(storeLog,
                        [ev |-> "getDoc", call |-> c, t |-> now, n |-> 0, ok |-> TRUE])
            /\ UNCHANGED << configs, lastFetch, fetchPromise >>
       ELSE Resolve(c, CollectionResult(store.webhooks), TRUE)
    /\ UNCHANGED << store, now, lastEventTimes, posts, responses >>
    /\ UNCHANGED mvars

\* getDoc(doc(db, 'settings', 'webhook')) answers (ok) or fails
GetDocReturn(c, ok) ==
    /\ calls[c].pc = "getDoc"
    /\ ~MicrotasksPending
    /\ Resolve(c, IF ok THEN LegacyResult(store.legacy)
                   ELSE OnFetchError(configs), ok)
    /\ UNCHANGED << store, now, lastEventTimes, posts, responses >>
    /\ UNCHANGED mvars

\* send() resumes with the configuration: the filter, the length test, and
\* every sendToWebhook up to its fetch().  A throw in the filter, or in one
\* sendToWebhook (which rejects Promise.all), rejects send().
FanOut(c) ==
    /\ calls[c].pc = "resolved"
    /\ LET call  == calls[c]
           en    == EnabledWebhooksForEvent(call.cfgs, call.eventType)
           f     == FanOutFrom(1, en, call.eventType, call.entityId,
                               lastEventTimes, now)
           threw == \E i \in 1..Len(f.branches) : f.branches[i] = "threw"
       IN  IF FilterThrows(call.cfgs)
           THEN /\ calls' = [calls EXCEPT ![c].pc = "done",
                                          ![c].result = "rejected",
                                          ![c].at = now]
                /\ UNCHANGED << lastEventTimes, posts >>
           ELSE IF Len(en) = 0
           THEN /\ calls' = [calls EXCEPT ![c].pc = "done",
                                          ![c].result = "false",
                                          ![c].at = now]
                /\ UNCHANGED << lastEventTimes, posts >>
           ELSE /\ calls' =
                     [ calls EXCEPT
                         ![c].enabled = en,
                         ![c].branches = f.branches,
                         ![c].at = now,
                         ![c].pc = IF threw THEN "done" ELSE "awaitHttp",
                         ![c].result = IF threw THEN "rejected" ELSE "pending" ]
                /\ lastEventTimes' = f.times
                /\ posts' = posts \cup
                     { Post(c, i, en[i], call.eventType, call.data, now) :
                         i \in { j \in 1..Len(en) : f.branches[j] = "inflight" } }
    /\ UNCHANGED << store, now, configs, lastFetch, fetchPromise, responses, storeLog >>
    /\ UNCHANGED mvars

\* the network answers request i of call c: a 2xx, a non-2xx, or a failure
HttpResponse(c, i, outcome) ==
    /\ i \in 1..Len(calls[c].branches)
    /\ calls[c].branches[i] = "inflight"
    /\ ~MicrotasksPending
    /\ calls' = [calls EXCEPT ![c].branches = OnResponse(@, i, outcome = "2xx")]
    /\ responses' = responses \cup {[call |-> c, idx |-> i, ok |-> outcome = "2xx"]}
    /\ UNCHANGED << store, now, configs, lastFetch, fetchPromise, lastEventTimes,
                    posts, storeLog >>
    /\ UNCHANGED mvars

\* Promise.all resolves: send() returns
SendReturn(c) ==
    /\ calls[c].pc = "awaitHttp"
    /\ Settled(calls[c])
    /\ calls' = [calls EXCEPT ![c].pc = "done",
                              ![c].result = SendResult(calls[c].branches)]
    /\ UNCHANGED << store, now, configs, lastFetch, fetchPromise, lastEventTimes,
                    posts, responses, storeLog >>
    /\ UNCHANGED mvars

\* time passes
Tick ==
    /\ now < StartTime + MaxTicks * TickMs
    /\ ~MicrotasksPending
    /\ now' = now + TickMs
    /\ UNCHANGED << store, configs, lastFetch, fetchPromise, lastEventTimes,
                    calls, posts, responses, storeLog >>
    /\ UNCHANGED mvars

Next ==
    \/ \E c \in Calls, op \in MainOps, e \in EntityIds, prev \in PreviousStatuses :
         StartSend(c, op, e, prev)
    \/ \E c \in Calls, ok \in BOOLEAN : GetDocsReturn(c, ok)
    \/ \E c \in Calls, ok \in BOOLEAN : GetDocReturn(c, ok)
    \/ \E c \in Calls : FanOut(c)
    \/ \E c \in Calls, i \in 1..2, outcome \in {"2xx", "non2xx", "neterr"} :
         HttpResponse(c, i, outcome)
    \/ \E c \in Calls : SendReturn(c)
    \/ Tick

Spec == Init /\ [][Next]_vars

\* The store and the network answer every read and every request (with a
\* result or a failure), and the event loop runs every queued continuation.
Responsive ==
    \A c \in Calls :
        /\ WF_vars(\E ok \in BOOLEAN : GetDocsReturn(c, ok))
        /\ WF_vars(\E ok \in BOOLEAN : GetDocReturn(c, ok))
        /\ WF_vars(FanOut(c))
        /\ WF_vars(SendReturn(c))
        /\ \A i \in 1..2 :
             WF_vars(\E outcome \in {"2xx", "non2xx", "neterr"} :
                        HttpResponse(c, i, outcome))

SpecResponsive == Init /\ [][Next]_vars /\ Responsive


(***************************************************************************)
(* The eligibility specification: all seven wrappers are called, against   *)
(* collections of two destinations (the first carrying the flag of one     *)
(* event kind, the second every flag but no URL or not enabled), against   *)
(* a destination with its throttle off, against the incomplete documents   *)
(* (alone and beside a complete one) and against the legacy document.      *)
(***************************************************************************)
EligStores ==
    { [webhooks |-> << Stored("A", Doc("A", "https://a", TRUE, {k}, ThrottleOn)),
                       Stored("B", b) >>,
       legacy |-> << >>] :
         k \in EventTypes,
         b \in { Doc("B", "", TRUE, EventTypes, ThrottleOff),
                 Doc("B", "https://b", FALSE, EventTypes, ThrottleOff) } }
    \cup { [webhooks |-> << Stored("A", a) >>, legacy |-> << >>] :
             a \in { Doc("A", "https://a", TRUE, EventTypes, ThrottleOff),
                     DocNoThrottle("A", "https://a", TRUE, EventTypes),
                     DocNoEvents("A", "https://a", TRUE, ThrottleOff) } }
    \cup { [webhooks |-> << Stored("A", DocA),
                           Stored("B", DocNoEvents("B", "https://b", TRUE,
                                                   ThrottleOff)) >>,
            legacy |-> << >>] }
    \cup { [webhooks |-> << >>, legacy |-> << l >>] : l \in LegacyDocs }

InitElig == store \in EligStores /\ InitService /\ InitMonitor /\ docs = NoDocs

\* The first call is any of the seven wrappers; the later calls repeat its
\* event kind (the case the throttle acts on).  The first destination of a
\* collection of EligStores carries the flag of one kind only, so the first
\* call already meets every pair (kind of the call, kind of the flag).
NextElig ==
    \/ \E c \in Calls, op \in Ops, e \in EntityIds, prev \in PreviousStatuses :
         /\ c > 1 => SendArgs(op, Payload(op, e), prev).eventType = calls[1].eventType
         /\ StartSend(c, op, e, prev)
    \/ \E c \in Calls, ok \in BOOLEAN : GetDocsReturn(c, ok)
    \/ \E c \in Calls, ok \in BOOLEAN : GetDocReturn(c, ok)
    \/ \E c \in Calls : FanOut(c)
    \/ \E c \in Calls, i \in 1..2, outcome \in {"2xx", "non2xx", "neterr"} :
         HttpResponse(c, i, outcome)
    \/ \E c \in Calls : SendReturn(c)
    \/ Tick

SpecElig == InitElig /\ [][NextElig]_vars


(***************************************************************************)
(* The throttle-window specification: three calls, so that a real attempt, *)
(* a suppressed call and a call past the interval can follow one another   *)
(* on one key, against a collection of two eligible destinations (one with *)
(* its throttle on, one with it off) and against the legacy document.      *)
(***************************************************************************)
WindowStores ==
    { [webhooks |-> << Stored("A", Doc("A", "https://a", TRUE,
                                       {"client_updated"}, ThrottleOn)),
                       Stored("B", Doc("B", "https://b", TRUE,
                                       {"client_updated"}, ThrottleOff)) >>,
       legacy |-> << >>] }
    \cup { [webhooks |-> << >>, legacy |-> << l >>] : l \in LegacyDocs }

InitWindow ==
    /\ store \in WindowStores
    /\ now = StartTime
    /\ configs = << >>
    /\ lastFetch = 0
    /\ fetchPromise = 0
    /\ lastEventTimes = << >>
    /\ calls = [c \in WindowCalls |-> IdleCall]
    /\ posts = {}
    /\ responses = {}
    /\ storeLog = << >>
    /\ InitMonitor
    /\ docs = NoDocs

NextWindow ==
    \/ \E c \in WindowCalls, op \in MainOps, e \in EntityIds,
          prev \in PreviousStatuses :
         StartSend(c, op, e, prev)
    \/ \E c \in WindowCalls, ok \in BOOLEAN : GetDocsReturn(c, ok)
    \/ \E c \in WindowCalls, ok \in BOOLEAN : GetDocReturn(c, ok)
    \/ \E c \in WindowCalls : FanOut(c)
    \/ \E c \in WindowCalls, i \in 1..2, outcome \in {"2xx", "non2xx", "neterr"} :
         HttpResponse(c, i, outcome)
    \/ \E c \in WindowCalls : SendReturn(c)
    \/ Tick

SpecWindow == InitWindow /\ [][NextWindow]_vars


(***************************************************************************)
(* The Change Monitor: useWebhookTrigger (unnamed/part_005).               *)
(*                                                                         *)
(* The hook runs inside a component: a render reads useAuth().user and the *)
(* commit that follows runs the effect (the cleanup of the previous effect *)
(* first, when a dependency changed).  The two onSnapshot callbacks are    *)
(* async functions: Firestore does not await them, so a callback may start *)
(* while an earlier one is suspended at an await.  A Dispatcher call of    *)
(* the hook is a call of the webhookService singleton: it runs as a call   *)
(* of the Dispatcher above, and the callback resumes when it has returned. *)
(***************************************************************************)
\* setUser calls made in one behaviour
MaxRenders == 2
\* writes (set, update, delete) made to clients and proposals in one behaviour
MaxWrites == 2

\* user?.role === 'admin' || user?.role === 'manager'
IsAuthorized(u) == u.role = "admin" \/ u.role = "manager"

Roles == { "admin", "manager", "client" }

\* the object AuthProvider hands to setUser: a new object at every call
UserObject(n, role) == [ref |-> n, id |-> "u1", name |-> "Ana", role |-> role]

\* Map.get / Map.set
MapGet(m, id) == IF id \in DOMAIN m THEN m[id] ELSE NoState
MapSet(m, id, v) == (id :> v) @@ m

\* { id: change.doc.id, ...change.doc.data() }
WithChangeId(id, data) == data @@ [id |-> id]

\* a value the code tests as a condition: undefined and '' are falsy
Truthy(r, f) == HasField(r, f) /\ r[f] # ""

\* doc.number.replace(/\d/g, '*'); a string is its sequence of characters
Digits == { "0", "1", "2", "3", "4", "5", "6", "7", "8", "9" }
ReplaceDigits(number) ==
    [ i \in 1..Len(number) |-> IF number[i] \in Digits THEN "*" ELSE number[i] ]

\* { ...doc, number: doc.number ? doc.number.replace(/\d/g, '*') : '***' }
RedactDocument(doc) ==
    [ number |-> IF HasField(doc, "number") /\ Len(doc.number) > 0
                 THEN ReplaceDigits(doc.number)
                 ELSE << "*", "*", "*" >> ]
    @@ doc

\* if (clientData.documents) clientData.documents = clientData.documents.map(...)
Redacted(clientData) ==
    IF HasField(clientData, "documents")
    THEN [ clientData EXCEPT !.documents =
             [ i \in 1..Len(@) |-> RedactDocument(@[i]) ] ]
    ELSE clientData

\* previousState.status || ''
PrevOrEmpty(prev) == IF HasField(prev, "status") THEN prev.status ELSE ""

CreatedOp(coll) ==
    IF coll = "clients" THEN "sendClientCreated" ELSE "sendProposalCreated"
StatusChangedOp(coll) ==
    IF coll = "clients" THEN "sendClientStatusChanged"
    ELSE "sendProposalStatusChanged"
UpdatedOp(coll) ==
    IF coll = "clients" THEN "sendClientUpdated" ELSE "sendProposalUpdated"

\* a field the record may not carry (undefined is left out)
Optional(r, f, as) == IF HasField(r, f) THEN as :> r[f] ELSE << >>

\* const pipelineData: PipelineChangeData = { ... }
PipelineData(proposalData, previousState, u, t) ==
    [ proposalId     |-> proposalData.id,
      previousStatus |-> previousState.pipelineStatus,
      newStatus      |-> proposalData.pipelineStatus,
      changedAt      |-> t,
      changedBy      |-> [id |-> u.id, name |-> u.name, role |-> u.role] ]
    @@ Optional(proposalData, "number", "proposalNumber")
    @@ Optional(proposalData, "clientId", "clientId")
    @@ Optional(proposalData, "clientName", "clientName")

\* one activation of a snapshot callback.  pc: lookupClient, lookupBank,
\* awaitCreated, awaitStatusChanged, awaitPipeline, awaitUpdated (the await
\* it is suspended at), done, aborted (a rejection left the callback).
NewHandler(coll, l, changes) ==
    [ coll |-> coll, listener |-> l.id, user |-> l.user, changes |-> changes,
      idx |-> 1, pc |-> "start", data |-> NoState, prev |-> NoState ]

\* webhookService.send*(...) is called: the Dispatcher runs the call up to
\* its first await, and the call is recorded
Dispatch(b, h, hid, op, payload, previousStatus) ==
    LET c == Len(b.calls) + 1
        a == SendArgs(op, payload, previousStatus)
        r == SendStarted([calls |-> Append(b.calls, IdleCall),
                          fetchPromise |-> b.fetchPromise,
                          storeLog |-> b.storeLog], c, a)
    IN  [ b EXCEPT
            !.calls = r.calls,
            !.fetchPromise = r.fetchPromise,
            !.storeLog = r.storeLog,
            !.dispatched =
              Append(@, [ op         |-> op,
                          args       |-> a,
                          call       |-> c,
                          notif      |-> h.changes[h.idx].n,
                          handler    |-> hid,
                          state      |-> "pending",
                          authorized |-> mounted /\ IsAuthorized(user),
                          attached   |-> \E l \in listeners : l.id = h.listener ]) ]

\* { ...clientData } / { ...proposalData }
SnapshotKept(h) == h.data

\* mutant of ClassifyAdded: a removal is handled as a modification
ClassifyRemovedAsModified(type, prev) ==
    IF type = "removed" THEN "modified" ELSE type

\* change.type === 'added' / 'modified' (the snapshot map is not consulted)
ClassifyAdded(type, prev) == type

\* previousState && previousState.status !== data.status
StatusDiffers(prev, data) == prev # NoState /\ prev.status # data.status

\* previousState.pipelineStatus !== proposalData.pipelineStatus
PipelineDiffers(prev, data) == prev.pipelineStatus # data.pipelineStatus

\* A callback runs from position pos of its code to its next await (or to
\* its end).  b: the snapshot maps, the handlers and the calls made so far.
RECURSIVE Advance(_, _, _, _)
Advance(h, hid, pos, b) ==
    IF pos = "start"
    THEN IF h.idx > Len(h.changes)
         THEN [h |-> [h EXCEPT !.pc = "done"], b |-> b]
         ELSE LET ch == h.changes[h.idx]
                  h1 == [h EXCEPT !.data = WithChangeId(ch.id, ch.data),
                                  !.prev = NoState]
              IN  IF h.coll = "clients"
                  THEN Advance([h1 EXCEPT !.data = Redacted(@)], hid,
                               "classify", b)
                  ELSE IF Truthy(h1.data, "clientId")
                  THEN [h |-> [h1 EXCEPT !.pc = "lookupClient"], b |-> b]
                  ELSE Advance(h1, hid, "bank", b)
    ELSE IF pos = "bank"
    THEN IF Truthy(h.data, "bankId")
         THEN [h |-> [h EXCEPT !.pc = "lookupBank"], b |-> b]
         ELSE Advance(h, hid, "classify", b)
    ELSE IF pos = "classify"
    THEN LET map  == IF h.coll = "clients" THEN b.previousClientStates
                     ELSE b.previousProposalStates
             prev == MapGet(map, h.data.id)
             type == ClassifyAdded(h.changes[h.idx].type, prev)
             h1   == [h EXCEPT !.prev = prev]
         IN  IF type = "added"
             THEN [ h |-> [h EXCEPT !.pc = "awaitCreated"],
                    b |-> Dispatch(b, h, hid, CreatedOp(h.coll), h.data, "") ]
             ELSE IF type = "modified"
             THEN IF StatusDiffers(prev, h.data)
                  THEN [ h |-> [h1 EXCEPT !.pc = "awaitStatusChanged"],
                         b |-> Dispatch(b, h, hid, StatusChangedOp(h.coll),
                                        h.data, PrevOrEmpty(prev)) ]
                  ELSE IF h.coll = "proposals" /\ prev # NoState
                  THEN Advance(h1, hid, "pipeline", b)
                  ELSE Advance(h1, hid, "update", b)
             ELSE Advance(h, hid, "next", b)
    ELSE IF pos = "pipeline"
    THEN IF PipelineDiffers(h.prev, h.data)
         THEN [ h |-> [h EXCEPT !.pc = "awaitPipeline"],
                b |-> Dispatch(b, h, hid, "sendPipelineStatusChanged",
                               PipelineData(h.data, h.prev, h.user, now), "") ]
         ELSE Advance(h, hid, "update", b)
    ELSE IF pos = "update"
    THEN [ h |-> [h EXCEPT !.pc = "awaitUpdated"],
           b |-> Dispatch(b, h, hid, UpdatedOp(h.coll), h.data, "") ]
    ELSE IF pos = "store"
    THEN Advance(h, hid, "next",
                 IF h.coll = "clients"
                 THEN [b EXCEPT !.previousClientStates =
                                   MapSet(@, h.data.id, SnapshotKept(h))]
                 ELSE [b EXCEPT !.previousProposalStates =
                                   MapSet(@, h.data.id, SnapshotKept(h))])
    ELSE Advance([h EXCEPT !.idx = @ + 1], hid, "start", b)

\* the position a handler resumes at when the call it awaits resolves
AfterAwait(h) ==
    IF h.pc = "awaitCreated" THEN "store"
    ELSE IF h.pc = "awaitStatusChanged"
    THEN (IF h.coll = "proposals" THEN "pipeline" ELSE "update")
    ELSE IF h.pc = "awaitPipeline" THEN "update"
    ELSE "store"

\* snapshot.docChanges().forEach(async ...): one callback per change
Forwarded(coll) == coll = "clients"

\* the clients callback: every change gets its own async callback, each run
\* to its first await before the next one starts
RECURSIVE StartEach(_, _, _, _)
StartEach(l, changes, i, b) ==
    IF i > Len(changes) THEN b
    ELSE LET hid == Len(b.handlers) + 1
             r   == Advance(NewHandler(l.coll, l, << changes[i] >>), hid, "start",
                            [b EXCEPT !.handlers = Append(@, NoState)])
         IN  StartEach(l, changes, i + 1,
                       [r.b EXCEPT !.handlers[hid] = r.h])

\* the proposals callback: one async function looping over the changes
StartLoop(l, changes, b) ==
    LET hid == Len(b.handlers) + 1
        r   == Advance(NewHandler(l.coll, l, changes), hid, "start",
                       [b EXCEPT !.handlers = Append(@, NoState)])
    IN  [r.b EXCEPT !.handlers[hid] = r.h]

\* listener l is handed a snapshot with these changes
Deliver(l, changes, b) ==
    LET numbered == [ i \in 1..Len(changes) |->
                        changes[i] @@ [n |-> Len(b.notified) + i,
                                       coll |-> l.coll, listener |-> l.id] ]
        b1 == [b EXCEPT !.notified = @ \o numbered]
    IN  IF Len(changes) = 0 THEN b
        ELSE IF Forwarded(l.coll) THEN StartEach(l, numbered, 1, b1)
        ELSE StartLoop(l, numbered, b1)

Bundle ==
    [ previousClientStates   |-> previousClientStates,
      previousProposalStates |-> previousProposalStates,
      notified   |-> notified,
      handlers   |-> handlers,
      dispatched |-> dispatched,
      calls        |-> calls,
      fetchPromise |-> fetchPromise,
      storeLog     |-> storeLog ]

Unbundle(b) ==
    /\ previousClientStates' = b.previousClientStates
    /\ previousProposalStates' = b.previousProposalStates
    /\ notified' = b.notified
    /\ handlers' = b.handlers
    /\ dispatched' = b.dispatched
    /\ calls' = b.calls
    /\ fetchPromise' = b.fetchPromise
    /\ storeLog' = b.storeLog

(***************************************************************************)
(* Inputs of the Monitor.                                                  *)
(***************************************************************************)
\* document ids, in the order a first snapshot lists them
ClientIds == << "c1" >>
ProposalIds == << "p1", "p2" >>
IdOrder(coll) == IF coll = "clients" THEN ClientIds ELSE ProposalIds

Statuses == { "pending", "approved" }
PipelineStatuses == { "submitted", "credit" }

\* client documents: two statuses, and a change that leaves the status alone
ClientDocs ==
    { [name |-> "Acme", status |-> "pending"],
      [name |-> "Acme Ltd", status |-> "pending"],
      [name |-> "Acme", status |-> "approved"],
      [name |-> "Acme", status |-> "pending",
       documents |-> << [type |-> "cpf", number |-> << "1", ".", "2" >>],
                        [type |-> "rg", number |-> << >>] >>] }

\* proposal documents: a change of neither status, of either, of both, and
\* a proposal that names its client and its bank
ProposalDocs ==
    { [number |-> "N1", status |-> "pending", pipelineStatus |-> "submitted"],
      [number |-> "N2", status |-> "pending", pipelineStatus |-> "submitted"],
      [number |-> "N1", status |-> "approved", pipelineStatus |-> "submitted"],
      [number |-> "N2", status |-> "approved", pipelineStatus |-> "submitted"],
      [number |-> "N1", status |-> "pending", pipelineStatus |-> "credit"],
      [number |-> "N1", status |-> "approved", pipelineStatus |-> "credit"],
      [number |-> "N1", status |-> "pending", pipelineStatus |-> "submitted",
       clientId |-> "c1", bankId |-> "b1"],
      [number |-> "N1", status |-> "pending", pipelineStatus |-> "submitted",
       clientId |-> "", bankId |-> ""] }

\* the documents written while the Monitor listens
WrittenIds(coll) == IF coll = "clients" THEN << "c1" >> ELSE << "p1" >>

DocsOf(coll) == IF coll = "clients" THEN ClientDocs ELSE ProposalDocs

Banks == [ b1 |-> [name |-> "Bank", tradingName |-> "BK"] ]

\* the Dispatcher configurations the Monitor runs against: a complete
\* destination, and one stored without its throttle object
MonitorStores ==
    { [webhooks |-> << Stored("A", DocA) >>, legacy |-> << >>],
      [webhooks |-> << Stored("A", DocNoThrottle("A", "https://a", TRUE, EventTypes)) >>,
       legacy |-> << >>] }

\* the records present when the session starts
InitialDocs ==
    { NoDocs,
      [clients |-> << >>,
       proposals |-> ("p1" :> [number |-> "N1", status |-> "pending",
                               pipelineStatus |-> "submitted"])
                     @@ ("p2" :> [number |-> "N1", status |-> "pending",
                                  pipelineStatus |-> "submitted"])],
      [clients |-> << >>,
       proposals |-> ("p1" :> [number |-> "N1", status |-> "pending",
                               pipelineStatus |-> "submitted",
                               clientId |-> "c1", bankId |-> "b1"])] }

(***************************************************************************)
(* Actions of the Monitor.                                                 *)
(***************************************************************************)
\* unsubscribes.forEach(unsubscribe => unsubscribe())
Cleanup(ls, unsubscribes) == { l \in ls : l.id \notin unsubscribes }

\* if (!isAuthorized) return;
Subscribes(u) == IsAuthorized(u)

\* useEffect dependencies [isAuthorized, user], compared with Object.is
DepsChanged(e, u) == e.isAuthorized # IsAuthorized(u) \/ e.user # u

\* AuthProvider calls setUser(u): the hook renders with u (useAuth().user,
\* isAuthorized).  The effects of the previous commit have run by then; the
\* effects of this one run in a later task.
Render(u) ==
    /\ mounted
    /\ ~MicrotasksPending
    /\ counters.users < MaxRenders
    /\ u # user
    /\ ~DepsChanged(effect, user)
    /\ user' = u
    /\ counters' = [counters EXCEPT !.users = @ + 1]
    /\ UNCHANGED << mounted, effect, listeners, docs, previousClientStates,
                    previousProposalStates, notified, handlers, dispatched >>
    /\ UNCHANGED dvars

\* the effects of the last commit run: the dependencies changed, so the
\* cleanup of the previous effect runs and then the effect
RunEffects ==
    /\ mounted
    /\ ~MicrotasksPending
    /\ DepsChanged(effect, user)
    /\ LET k == counters.listeners IN
       /\ listeners' =
            Cleanup(listeners, effect.unsubscribes)
            \cup (IF Subscribes(user)
                  THEN { [id |-> k + 1, coll |-> "clients", user |-> user,
                          primed |-> FALSE],
                         [id |-> k + 2, coll |-> "proposals", user |-> user,
                          primed |-> FALSE] }
                  ELSE {})
       /\ effect' = [ isAuthorized |-> IsAuthorized(user), user |-> user,
                      unsubscribes |-> IF Subscribes(user) THEN {k + 1, k + 2}
                                       ELSE {} ]
       /\ counters' = [counters EXCEPT
                         !.listeners = IF Subscribes(user) THEN k + 2 ELSE k]
    /\ UNCHANGED << user, mounted, docs, previousClientStates,
                    previousProposalStates, notified, handlers, dispatched >>
    /\ UNCHANGED dvars

\* the owning component is removed (the effects of the last commit have
\* run); the cleanup of its effect runs in a later task
Unmount ==
    /\ mounted
    /\ ~MicrotasksPending
    /\ ~DepsChanged(effect, user)
    /\ mounted' = FALSE
    /\ UNCHANGED << user, effect, listeners, docs, previousClientStates,
                    previousProposalStates, notified, handlers, dispatched,
                    counters >>
    /\ UNCHANGED dvars

\* the cleanup of the effect of the removed component runs
UnmountCleanup ==
    /\ ~mounted
    /\ ~MicrotasksPending
    /\ effect.unsubscribes # {}
    /\ listeners' = Cleanup(listeners, effect.unsubscribes)
    /\ effect' = [effect EXCEPT !.unsubscribes = {}]
    /\ UNCHANGED << user, mounted, docs, previousClientStates,
                    previousProposalStates, notified, handlers, dispatched,
                    counters >>
    /\ UNCHANGED dvars

\* the changes of a first snapshot: every document, as 'added'
FirstChanges(coll) ==
    LET ids == SelectSeq(IdOrder(coll), LAMBDA id : id \in DOMAIN docs[coll])
    IN  [ i \in 1..Len(ids) |->
            [type |-> "added", id |-> ids[i], data |-> docs[coll][ids[i]]] ]

\* a new listener gets its first snapshot
FirstSnapshot(l) ==
    /\ l \in listeners
    /\ ~l.primed
    /\ ~MicrotasksPending
    /\ listeners' = (listeners \ {l}) \cup {[l EXCEPT !.primed = TRUE]}
    /\ Unbundle(Deliver(l, FirstChanges(l.coll), Bundle))
    /\ UNCHANGED << user, mounted, effect, docs, counters >>
    /\ UNCHANGED << store, now, configs, lastFetch, lastEventTimes, posts, responses >>

\* the listeners of a collection that have had their first snapshot, in the
\* order they were attached
RECURSIVE DeliverAll(_, _, _, _)
DeliverAll(coll, change, k, b) ==
    IF k > counters.listeners THEN b
    ELSE LET ls == { l \in listeners : l.id = k /\ l.coll = coll /\ l.primed }
         IN  DeliverAll(coll, change, k + 1,
                        IF ls = {} THEN b
                        ELSE Deliver(CHOOSE l \in ls : TRUE, << change >>, b))

\* a mutator writes a document (setDoc / updateDoc): the attached listeners
\* are told 'added' or 'modified'
Write(coll, id, data) ==
    /\ counters.writes < MaxWrites
    /\ ~MicrotasksPending
    /\ MapGet(docs[coll], id) # data
    /\ docs' = [docs EXCEPT ![coll] = MapSet(@, id, data)]
    /\ counters' = [counters EXCEPT !.writes = @ + 1]
    /\ Unbundle(DeliverAll(coll,
                           [ type |-> IF id \in DOMAIN docs[coll] THEN "modified"
                                      ELSE "added",
                             id |-> id, data |-> data ],
                           1, Bundle))
    /\ UNCHANGED << user, mounted, effect, listeners >>
    /\ UNCHANGED << store, now, configs, lastFetch, lastEventTimes, posts, responses >>

\* a mutator deletes a document: the attached listeners are told 'removed'
Delete(coll, id) ==
    /\ counters.writes < MaxWrites
    /\ ~MicrotasksPending
    /\ id \in DOMAIN docs[coll]
    /\ docs' = [docs EXCEPT ![coll] =
                  [i \in DOMAIN docs[coll] \ {id} |-> docs[coll][i]]]
    /\ counters' = [counters EXCEPT !.writes = @ + 1]
    /\ Unbundle(DeliverAll(coll,
                           [type |-> "removed", id |-> id, data |-> docs[coll][id]],
                           1, Bundle))
    /\ UNCHANGED << user, mounted, effect, listeners >>
    /\ UNCHANGED << store, now, configs, lastFetch, lastEventTimes, posts, responses >>

\* what getDoc(doc(db, 'clients' | 'banks', id)) can answer
LookupOutcomes(h) ==
    { "error" } \cup
    ( IF h.pc = "lookupClient"
      THEN (IF h.data.clientId \in DOMAIN docs.clients THEN {"found"} ELSE {"missing"})
      ELSE (IF h.data.bankId \in DOMAIN Banks THEN {"found"} ELSE {"missing"}) )

\* mutant of Enriched: a lookup that fails or finds nothing blanks the name
EnrichedOrBlank(h, outcome) ==
    IF h.pc = "lookupClient"
    THEN [clientName |-> IF outcome = "found"
                         THEN docs.clients[h.data.clientId].name ELSE ""]
         @@ h.data
    ELSE [ bankName |-> IF outcome = "found" THEN Banks[h.data.bankId].name
                        ELSE "",
           bankTradingName |-> IF outcome = "found"
                               THEN Banks[h.data.bankId].tradingName ELSE "" ]
         @@ h.data

\* proposalData.clientName = ... / proposalData.bankName = ...
Enriched(h, outcome) ==
    IF outcome # "found" THEN h.data
    ELSE IF h.pc = "lookupClient"
    THEN [clientName |-> docs.clients[h.data.clientId].name] @@ h.data
    ELSE [ bankName |-> Banks[h.data.bankId].name,
           bankTradingName |-> Banks[h.data.bankId].tradingName ] @@ h.data

\* a lookup of the proposals callback answers, or fails (and is caught)
LookupReturn(hid, outcome) ==
    /\ hid \in 1..Len(handlers)
    /\ handlers[hid].pc \in {"lookupClient", "lookupBank"}
    /\ ~MicrotasksPending
    /\ outcome \in LookupOutcomes(handlers[hid])
    /\ LET h == handlers[hid]
           r == Advance([h EXCEPT !.data = Enriched(h, outcome)], hid,
                        IF h.pc = "lookupClient" THEN "bank" ELSE "classify",
                        Bundle)
       IN  Unbundle([r.b EXCEPT !.handlers[hid] = r.h])
    /\ UNCHANGED << user, mounted, effect, listeners, docs, counters >>
    /\ UNCHANGED << store, now, configs, lastFetch, lastEventTimes, posts, responses >>

\* the Dispatcher call k has returned (or was rejected): the callback
\* awaiting it goes on to its next await, or is left by the rejection
SendSettles(k) ==
    /\ k \in 1..Len(dispatched)
    /\ dispatched[k].state = "pending"
    /\ calls[dispatched[k].call].pc = "done"
    /\ LET hid      == dispatched[k].handler
           h        == handlers[hid]
           rejected == calls[dispatched[k].call].result = "rejected"
           b0  == [Bundle EXCEPT !.dispatched[k].state =
                                     IF rejected THEN "rejected" ELSE "resolved"]
       IN  IF rejected
           THEN Unbundle([b0 EXCEPT !.handlers[hid].pc = "aborted"])
           ELSE LET r == Advance(h, hid, AfterAwait(h), b0)
                IN  Unbundle([r.b EXCEPT !.handlers[hid] = r.h])
    /\ UNCHANGED << user, mounted, effect, listeners, docs, counters >>
    /\ UNCHANGED << store, now, configs, lastFetch, lastEventTimes, posts, responses >>

\* the service as constructed, no call made yet
InitMonitored ==
    /\ store \in MonitorStores
    /\ now = StartTime
    /\ configs = << >>
    /\ lastFetch = 0
    /\ fetchPromise = 0
    /\ lastEventTimes = << >>
    /\ calls = << >>
    /\ posts = {}
    /\ responses = {}
    /\ storeLog = << >>
    /\ InitMonitor
    /\ docs \in InitialDocs

\* both listeners are attached and have had their first snapshot
Listening == listeners # {} /\ \A l \in listeners : l.primed

\* The session signs in once, as an administrator, and the records are then
\* written while the Monitor listens (what was written before is in
\* InitialDocs).  The Dispatcher runs the calls of the hook: the store
\* answers or fails their configuration reads, and the destination answers
\* their requests (MonitorStores has no legacy document and no empty
\* collection, so no call reads settings/webhook).
NextMonitor ==
    \/ counters.users = 0 /\ Render(UserObject(1, "admin"))
    \/ RunEffects
    \/ \E l \in listeners : FirstSnapshot(l)
    \/ \E coll \in {"clients", "proposals"} :
         \E i \in 1..Len(WrittenIds(coll)), data \in DocsOf(coll) :
            Listening /\ Write(coll, WrittenIds(coll)[i], data)
    \/ \E coll \in {"clients", "proposals"} :
         \E i \in 1..Len(WrittenIds(coll)) :
            Listening /\ Delete(coll, WrittenIds(coll)[i])
    \/ \E hid \in 1..Len(handlers), outcome \in {"found", "missing", "error"} :
         LookupReturn(hid, outcome)
    \/ \E c \in DOMAIN calls, ok \in BOOLEAN : GetDocsReturn(c, ok)
    \/ \E c \in DOMAIN calls : FanOut(c)
    \/ \E c \in DOMAIN calls : HttpResponse(c, 1, "2xx")
    \/ \E c \in DOMAIN calls : SendReturn(c)
    \/ \E k \in 1..Len(dispatched) : SendSettles(k)

SpecMonitor == InitMonitored /\ [][NextMonitor]_vars


\* The session specification: sign-in, sign-out, change of role, change of
\* the user object and teardown, over the records of InitialDocs (every
\* subscription is handed all of them in its first snapshot).  The requests
\* of the Dispatcher get a 2xx, a non-2xx or a network failure.
NextSession ==
    \/ \E r \in Roles : Render(UserObject(counters.users + 1, r))
    \/ Render(NoUser)
    \/ RunEffects
    \/ Unmount
    \/ UnmountCleanup
    \/ \E l \in listeners : FirstSnapshot(l)
    \/ \E hid \in 1..Len(handlers), outcome \in {"found", "missing", "error"} :
         LookupReturn(hid, outcome)
    \/ \E c \in DOMAIN calls, ok \in BOOLEAN : GetDocsReturn(c, ok)
    \/ \E c \in DOMAIN calls : FanOut(c)
    \/ \E c \in DOMAIN calls, outcome \in {"2xx", "non2xx", "neterr"} :
         HttpResponse(c, 1, outcome)
    \/ \E c \in DOMAIN calls : SendReturn(c)
    \/ \E k \in 1..Len(dispatched) : SendSettles(k)

SpecSession == InitMonitored /\ [][NextSession]_vars

(***************************************************************************)
(* Vocabulary of the claims, stated from the specification's words and     *)
(* over the requests, responses and reads recorded above.                  *)
(***************************************************************************)
\* where the specification puts the flag of each event kind
FlagPath ==
    [ client_created          |-> << "clients", "created" >>,
      client_updated          |-> << "clients", "updated" >>,
      client_status_changed   |-> << "clients", "statusChanged" >>,
      proposal_created        |-> << "proposals", "created" >>,
      proposal_updated        |-> << "proposals", "updated" >>,
      proposal_status_changed |-> << "proposals", "statusChanged" >>,
      pipeline_status_changed |-> << "pipeline", "statusChanged" >> ]

NestedFlag(D, E) ==
    HasField(D, "events") /\ D.events[FlagPath[E][1]][FlagPath[E][2]]

\* the WebhookDestination invariant: enabled, a URL, and the flag of E
Eligible(D, E) == D.enabled /\ D.url # "" /\ NestedFlag(D, E)

\* the call has been through its fan-out (or was turned away before it)
PastFanOut(c) == calls[c].pc \in {"awaitHttp", "done"}

\* call c made an HTTP attempt to destination D
PostedTo(c, D) == \E p \in posts : p.call = c /\ p.id = D.id /\ p.url = D.url

SameKey(p, q) ==
    /\ p.id = q.id
    /\ p.body.event = q.body.event
    /\ calls[p.call].entityId = calls[q.call].entityId

\* the destination a request was addressed to, as the call resolved it
DestOf(p) == calls[p.call].enabled[p.idx]

ThrottleOnFor(D) == HasField(D, "throttle") /\ D.throttle.enabled

\* call c falls inside D's throttle window: another call's attempt with the
\* same (destination id, event kind, entity id) was made less than the
\* interval before c fanned out
InWindow(c, D) ==
    /\ ThrottleOnFor(D)
    /\ \E p \in posts :
         /\ p.call # c
         /\ p.id = D.id
         /\ p.body.event = calls[c].eventType
         /\ calls[p.call].entityId = calls[c].entityId
         /\ p.body.timestamp <= calls[c].at
         /\ calls[c].at - p.body.timestamp < D.throttle.interval * 1000

(***************************************************************************)
(* C1: for every send(E, payload, id) and every destination D of the       *)
(* configuration the call resolved, an HTTP delivery to D is made if and   *)
(* only if D.enabled, D.url is non-empty and D's nested flag for E is true *)
(* (for each of the seven kinds, the flag belonging to that kind).  Stated *)
(* for the calls that do not fall inside D's throttle window, where the    *)
(* throttle withholds the delivery (C2).                                   *)
(***************************************************************************)
C1_DeliveredIffEligible ==
    \A c \in Calls :
        PastFanOut(c) =>
            \A i \in 1..Len(calls[c].cfgs) :
                LET D == calls[c].cfgs[i] IN
                ~InWindow(c, D)
                => (PostedTo(c, D) <=> Eligible(D, calls[c].eventType))

(***************************************************************************)
(* C2: for a destination with throttling enabled and interval T seconds,   *)
(* no two HTTP attempts with the same (destination id, event kind, entity  *)
(* id) are made less than T seconds apart, and a call suppressed by the    *)
(* throttle never results in a request, then or later.                     *)
(***************************************************************************)
C2_AttemptsAtLeastIntervalApart ==
    /\ \A p, q \in posts :
         ( /\ p # q
           /\ SameKey(p, q)
           /\ ThrottleOnFor(DestOf(q))
           /\ p.body.timestamp <= q.body.timestamp )
         => q.body.timestamp - p.body.timestamp
              >= DestOf(q).throttle.interval * 1000
    /\ \A c \in Calls : \A i \in 1..Len(calls[c].branches) :
         calls[c].branches[i] = "throttled"
            => ~\E p \in posts : p.call = c /\ p.idx = i

\* C2 witness: a finished call was suppressed for a key another call had
\* attempted, one clock step (less than the interval) earlier
C2_Witness ==
    \E c \in Calls : \E i \in 1..Len(calls[c].branches) :
        /\ calls[c].pc = "done"
        /\ calls[c].branches[i] = "throttled"
        /\ \E p \in posts :
             /\ p.call # c
             /\ p.id = calls[c].enabled[i].id
             /\ p.body.event = calls[c].eventType
             /\ calls[p.call].entityId = calls[c].entityId
             /\ p.body.timestamp < calls[c].at

(***************************************************************************)
(* C3: no public operation of the Dispatcher ever throws or returns a      *)
(* rejected promise; every failure surfaces as the result false.           *)
(***************************************************************************)
C3_NeverRejects == \A c \in Calls : calls[c].result # "rejected"


(***************************************************************************)
(* C4: within one send() with two or more eligible, non-throttled          *)
(* destinations, a network failure or non-2xx answer from one destination  *)
(* never prevents the attempt to another one and never changes the outcome *)
(* recorded for it: every branch that was neither throttled nor threw has  *)
(* its request made, and its outcome is that of its own answer only.       *)
(***************************************************************************)
C4_FailureIsolated ==
    \A c \in Calls :
        (PastFanOut(c) /\ Len(calls[c].enabled) >= 2) =>
            \A i \in 1..Len(calls[c].enabled) :
                LET b      == calls[c].branches[i]
                    posted == \E p \in posts : p.call = c /\ p.idx = i
                    answer(ok) == [call |-> c, idx |-> i, ok |-> ok] \in responses
                IN  /\ b \notin {"throttled", "threw"} => posted
                    /\ b = "true" <=> answer(TRUE)
                    /\ b = "false" <=> answer(FALSE)
                    /\ b = "inflight" <=> (posted /\ ~answer(TRUE) /\ ~answer(FALSE))

\* C4 witness: a finished call whose first destination failed and whose
\* second destination was attempted and answered 2xx (or the reverse)
C4_Witness ==
    \E c \in Calls : \E i, j \in 1..Len(calls[c].branches) :
        /\ calls[c].pc = "done"
        /\ i # j
        /\ calls[c].branches[i] = "false"
        /\ calls[c].branches[j] = "true"
        /\ [call |-> c, idx |-> i, ok |-> FALSE] \in responses
        /\ calls[c].result = "true"

(***************************************************************************)
(* C5: send() returns true if and only if at least one destination         *)
(* answered 2xx to an attempt made by that call; it returns false when no  *)
(* destination is eligible (and then makes no HTTP call), when every       *)
(* eligible destination was throttled, and when every attempt failed.      *)
(***************************************************************************)
C5_TrueIffSome2xx ==
    \A c \in Calls :
        calls[c].pc = "done" =>
            LET E        == calls[c].eventType
                eligible == { i \in 1..Len(calls[c].cfgs) :
                                Eligible(calls[c].cfgs[i], E) }
                mine     == { p \in posts : p.call = c }
                ok2xx    == \E r \in responses : r.call = c /\ r.ok
            IN  /\ calls[c].result = "true" <=> ok2xx
                /\ eligible = {} => (calls[c].result = "false" /\ mine = {})
                /\ (\A i \in eligible : InWindow(c, calls[c].cfgs[i]))
                      => calls[c].result = "false"
                /\ ~ok2xx => calls[c].result = "false"

(***************************************************************************)
(* C6: while a configuration fetch is in flight every concurrent caller    *)
(* awaits that same fetch and receives its result; at no time are two      *)
(* reads of the destination store outstanding, and the in-flight marker is *)
(* set exactly while the fetch is running.                                 *)
(***************************************************************************)
Reading == { c \in Calls : calls[c].pc \in {"getDocs", "getDoc"} }

C6_SingleFlight ==
    /\ Cardinality(Reading) <= 1
    /\ fetchPromise # 0 <=> Reading # {}
    /\ fetchPromise # 0 => Reading = {fetchPromise}
    /\ \A d \in Calls :
         /\ calls[d].pc = "awaitFetch" => calls[d].joined \in Reading
         /\ (calls[d].joined # 0 /\ calls[d].pc # "awaitFetch")
               => /\ calls[calls[d].joined].pc \notin {"idle", "getDocs", "getDoc"}
                  /\ calls[d].cfgs = calls[calls[d].joined].cfgs
                  /\ ~\E k \in 1..Len(storeLog) :
                        storeLog[k].call = d /\ storeLog[k].ev = "getDocs"

\* C6 witness: a caller that arrived during another caller's fetch has
\* received that fetch's non-empty result
C6_Witness ==
    \E d \in Calls :
        /\ calls[d].joined # 0
        /\ calls[d].pc = "done"
        /\ Len(calls[d].cfgs) > 0
        /\ calls[d].cfgs = calls[calls[d].joined].cfgs

(***************************************************************************)
(* C7 (original statement): after a fetch completes, no further store read *)
(* is started until 5 minutes have elapsed since that fetch completed.     *)
(***************************************************************************)
C7_NoReadWithinFiveMinutes ==
    \A i, j \in 1..Len(storeLog) :
        ( /\ i < j
          /\ storeLog[i].ev = "fetched"
          /\ storeLog[j].ev = "getDocs" )
        => storeLog[j].t - storeLog[i].t >= 5 * 60 * 1000

(***************************************************************************)
(* C7 (amended): after a fetch completes with a non-empty destination      *)
(* list, no further store read is started until 5 minutes have elapsed     *)
(* since that fetch completed (an empty result is not cached: C26).        *)
(***************************************************************************)
C7_NoReadWithinFiveMinutesOfNonEmptyFetch ==
    \A i, j \in 1..Len(storeLog) :
        ( /\ i < j
          /\ storeLog[i].ev = "fetched"
          /\ storeLog[i].n > 0
          /\ storeLog[j].ev = "getDocs" )
        => storeLog[j].t - storeLog[i].t >= 5 * 60 * 1000

\* C7 witness: a fetch returned destinations, and a later call, made one
\* clock step after it, got its configuration without any store read
C7_Witness ==
    \E k \in 1..Len(storeLog) : \E c \in Calls :
        /\ storeLog[k].ev = "fetched" /\ storeLog[k].n > 0
        /\ storeLog[k].call # c
        /\ calls[c].joined = 0
        /\ PastFanOut(c)
        /\ calls[c].at > storeLog[k].t
        /\ Len(calls[c].cfgs) > 0
        /\ ~\E j \in 1..Len(storeLog) : storeLog[j].call = c

(***************************************************************************)
(* C8: if reading the destination collection fails, the send() that        *)
(* triggered the read treats the configuration as zero destinations: it    *)
(* makes no HTTP call, returns false, and does not raise.                  *)
(***************************************************************************)
C8_FailedReadMeansNoDestinations ==
    \A k \in 1..Len(storeLog) :
        (storeLog[k].ev = "fetched" /\ ~storeLog[k].ok) =>
            LET c == storeLog[k].call IN
            /\ calls[c].pc \in {"resolved", "done"}
            /\ ~\E p \in posts : p.call = c
            /\ calls[c].result # "rejected"
            /\ calls[c].pc = "done" => calls[c].result = "false"

\* C8 witness: a call whose read failed has returned false, in a store that
\* holds an eligible destination and after an earlier fetch had cached it
C8_Witness ==
    \E k, j \in 1..Len(storeLog) :
        /\ j < k
        /\ storeLog[j].ev = "fetched" /\ storeLog[j].n > 0
        /\ storeLog[k].ev = "fetched" /\ ~storeLog[k].ok
        /\ calls[storeLog[k].call].pc = "done"
        /\ calls[storeLog[k].call].result = "false"
        /\ \E i \in 1..Len(store.webhooks) :
             Eligible(store.webhooks[i].data, calls[storeLog[k].call].eventType)

(***************************************************************************)
(* C9: when the collection is empty and the legacy document exists, the    *)
(* resolved configuration is exactly one destination carrying every field  *)
(* of the legacy document unchanged plus a synthetic id and name; when the *)
(* collection is non-empty the legacy document is never consulted (and the *)
(* configuration is the collection's documents); when both are absent the  *)
(* configuration is the empty list.                                        *)
(***************************************************************************)
C9_LegacyUpgrade ==
    /\ store.webhooks # << >> =>
         ~\E k \in 1..Len(storeLog) : storeLog[k].ev = "getDoc"
    /\ \A k \in 1..Len(storeLog) :
         (storeLog[k].ev = "fetched" /\ storeLog[k].ok) =>
            LET r == calls[storeLog[k].call].cfgs IN
            IF store.webhooks # << >>
            THEN /\ Len(r) = Len(store.webhooks)
                 /\ \A i \in 1..Len(r) :
                      /\ r[i].id = store.webhooks[i].id
                      /\ \A f \in DOMAIN store.webhooks[i].data :
                           r[i][f] = store.webhooks[i].data[f]
            ELSE IF store.legacy # << >>
            THEN /\ Len(r) = 1
                 /\ DOMAIN r[1] = DOMAIN store.legacy[1] \cup {"id", "name"}
                 /\ \A f \in DOMAIN store.legacy[1] : r[1][f] = store.legacy[1][f]
                 /\ r[1].id = "default"
                 /\ r[1].name = "Webhook Padrão"
            ELSE r = << >>

\* C9 witness: a call resolved the upgraded legacy document and delivered
\* to its URL
C9_Witness ==
    \E c \in Calls :
        /\ Len(calls[c].cfgs) = 1
        /\ calls[c].cfgs[1].id = "default"
        /\ store.legacy # << >>
        /\ \E p \in posts :
             p.call = c /\ p.id = "default" /\ p.url = store.legacy[1].url

(***************************************************************************)
(* C10 (original statement): every delivery attempt not suppressed by      *)
(* throttling sets the throttle timestamp of its (destination id, event    *)
(* kind, entity id) key to the time of the attempt.                        *)
(***************************************************************************)
KeyOf(p) == p.id \o ":" \o p.body.event \o ":" \o calls[p.call].entityId

LatestOfKey(p) ==
    \A q \in posts : KeyOf(q) = KeyOf(p) => q.body.timestamp <= p.body.timestamp

C10_EveryAttemptStamps ==
    \A p \in posts :
        /\ KeyOf(p) \in DOMAIN lastEventTimes
        /\ LatestOfKey(p) => lastEventTimes[KeyOf(p)] = p.body.timestamp

(***************************************************************************)
(* C10 (amended): every delivery attempt to a destination whose throttle   *)
(* is enabled sets the throttle timestamp of its key to the time of the    *)
(* attempt, whatever the HTTP outcome; an attempt to a destination whose   *)
(* throttle is disabled writes no timestamp.                               *)
(***************************************************************************)
C10_ThrottledDestinationAttemptStamps ==
    /\ \A p \in posts :
         ThrottleOnFor(DestOf(p)) =>
            /\ KeyOf(p) \in DOMAIN lastEventTimes
            /\ LatestOfKey(p) => lastEventTimes[KeyOf(p)] = p.body.timestamp
    /\ \A key \in DOMAIN lastEventTimes :
         \E p \in posts :
            /\ KeyOf(p) = key
            /\ ThrottleOnFor(DestOf(p))
            /\ p.body.timestamp = lastEventTimes[key]

\* C10 witness: an attempt to a throttle-enabled destination failed, and
\* the timestamp of its key is the time of that attempt
C10_Witness ==
    \E p \in posts :
        /\ ThrottleOnFor(DestOf(p))
        /\ [call |-> p.call, idx |-> p.idx, ok |-> FALSE] \in responses
        /\ KeyOf(p) \in DOMAIN lastEventTimes
        /\ lastEventTimes[KeyOf(p)] = p.body.timestamp

(***************************************************************************)
(* C11 (original statement): for two send() calls that overlap in time and *)
(* target the same (destination, event kind, entity id) on a throttled     *)
(* destination, at most one of the two passes the throttle check and makes *)
(* an HTTP attempt.                                                        *)
(***************************************************************************)
\* d was called while c, called before it, had not returned yet
Overlapping(c, d) ==
    c < d /\ calls[c].pc \notin {"idle", "done"} /\ calls[d].pc # "idle"

\* both calls made a request to the same throttle-enabled destination
BothAttempted(c, d) ==
    \E p, q \in posts :
        /\ p.call = c /\ q.call = d
        /\ SameKey(p, q)
        /\ ThrottleOnFor(DestOf(p)) /\ ThrottleOnFor(DestOf(q))

C11_OverlappingCallsOnePasses ==
    \A c, d \in Calls : Overlapping(c, d) => ~BothAttempted(c, d)

(***************************************************************************)
(* C11 (amended): for two send() calls that overlap in time, target the    *)
(* same (destination, event kind, entity id) on a throttled destination    *)
(* and reach the throttle check less than the interval apart, the check    *)
(* and the timestamp update form one atomic step: at most one of the two   *)
(* passes the check and makes an HTTP attempt.  (A call whose request is   *)
(* still unanswered after the interval does not keep a later call out.)    *)
(***************************************************************************)
C11_OverlappingCallsInWindowOnePasses ==
    \A c, d \in Calls :
        ( /\ Overlapping(c, d)
          /\ PastFanOut(c) /\ PastFanOut(d)
          /\ calls[c].eventType = calls[d].eventType
          /\ calls[c].entityId = calls[d].entityId )
        => \A i \in 1..Len(calls[c].enabled), j \in 1..Len(calls[d].enabled) :
             LET D  == calls[c].enabled[i]
                 D2 == calls[d].enabled[j]
                 gap == IF calls[c].at <= calls[d].at
                        THEN calls[d].at - calls[c].at
                        ELSE calls[c].at - calls[d].at
             IN  ( /\ D.id = D2.id
                   /\ ThrottleOnFor(D) /\ ThrottleOnFor(D2)
                   /\ gap < D.throttle.interval * 1000 )
                 => ~( /\ \E p \in posts : p.call = c /\ p.idx = i
                       /\ \E q \in posts : q.call = d /\ q.idx = j )

\* C11 witness: two calls awaited the same configuration fetch; the first
\* passed the throttle check and is still awaiting its answer, the second
\* was turned away by the throttle at the same instant
C11_Witness ==
    \E c, d \in Calls :
        /\ Overlapping(c, d)
        /\ calls[d].joined = c
        /\ calls[c].pc = "awaitHttp"
        /\ calls[d].pc = "done"
        /\ calls[d].at = calls[c].at
        /\ \E i \in 1..Len(calls[c].branches), j \in 1..Len(calls[d].branches) :
             /\ calls[c].enabled[i].id = calls[d].enabled[j].id
             /\ calls[c].eventType = calls[d].eventType
             /\ calls[c].entityId = calls[d].entityId
             /\ calls[c].branches[i] = "inflight"
             /\ calls[d].branches[j] = "throttled"

(***************************************************************************)
(* Vocabulary of the Change Monitor claims.                                *)
(***************************************************************************)
\* no callback is suspended at an await
Quiescent ==
    \A hid \in 1..Len(handlers) : handlers[hid].pc \in {"done", "aborted"}

\* no Dispatcher call made so far was rejected (the fault of C3 did not act)
NoRejection ==
    \A k \in 1..Len(dispatched) : dispatched[k].state # "rejected"

\* the event kind of each sort of call, per collection
Kind(coll, sort) ==
    (IF coll = "clients" THEN "client_" ELSE "proposal_") \o sort

\* the Dispatcher calls of event kind e caused by notification n
CallsFor(n, e) ==
    { k \in 1..Len(dispatched) :
        dispatched[k].notif = n /\ dispatched[k].args.eventType = e }

AllCallsFor(n) == { k \in 1..Len(dispatched) : dispatched[k].notif = n }

\* the notification delivered last before n for the same record (0: none)
Preceding(n) ==
    LET before == { m \in 1..(n - 1) :
                      /\ notified[m].coll = notified[n].coll
                      /\ notified[m].id = notified[n].id
                      /\ notified[m].type \in {"added", "modified"} }
    IN  IF before = {} THEN 0
        ELSE CHOOSE m \in before : \A o \in before : o <= m

(***************************************************************************)
(* C12: for every 'added' notification of a client or proposal delivered   *)
(* to the Monitor, the Monitor makes exactly one *_created Dispatcher call *)
(* for that record (never more than one, and one once the callbacks have   *)
(* run) and no *_updated, *_status_changed or pipeline_status_changed call.*)
(***************************************************************************)
C12_AddedDispatchesCreatedOnce ==
    \A n \in 1..Len(notified) :
        notified[n].type = "added" =>
            /\ AllCallsFor(n) = CallsFor(n, Kind(notified[n].coll, "created"))
            /\ Cardinality(AllCallsFor(n)) <= 1
            /\ Quiescent => Cardinality(AllCallsFor(n)) = 1

(***************************************************************************)
(* C13: for every 'modified' notification of a record whose status and     *)
(* (for proposals) pipelineStatus are both equal to those of the           *)
(* immediately preceding notification for the same record id, the Monitor  *)
(* makes exactly one *_updated Dispatcher call and zero *_status_changed   *)
(* and zero pipeline_status_changed calls, under every interleaving of     *)
(* notification handlers.  Stated for the behaviours in which no           *)
(* Dispatcher call is rejected (C3): the statement fails there too.        *)
(***************************************************************************)
SameStatuses(n, m) ==
    /\ notified[n].data.status = notified[m].data.status
    /\ HasField(notified[n].data, "pipelineStatus")
         => notified[n].data.pipelineStatus = notified[m].data.pipelineStatus

C13_UnchangedStatusDispatchesUpdatedOnly ==
    NoRejection =>
    \A n \in 1..Len(notified) :
        ( /\ notified[n].type = "modified"
          /\ Preceding(n) # 0
          /\ SameStatuses(n, Preceding(n)) )
        => /\ AllCallsFor(n) = CallsFor(n, Kind(notified[n].coll, "updated"))
           /\ Cardinality(AllCallsFor(n)) <= 1
           /\ Quiescent => Cardinality(AllCallsFor(n)) = 1

(***************************************************************************)
(* C14: for every 'modified' notification of a client or proposal whose    *)
(* status differs from the status carried by the immediately preceding     *)
(* notification for the same record id, the Monitor makes exactly one      *)
(* *_status_changed Dispatcher call, with previousStatus equal to that     *)
(* preceding status and newStatus equal to the current status, in addition *)
(* to exactly one *_updated call, under every interleaving of notification *)
(* handlers.  Stated for the behaviours in which no Dispatcher call is     *)
(* rejected (C3): the statement fails there too.                           *)
(***************************************************************************)
C14_StatusChangeDispatchedOnce ==
    NoRejection =>
    \A n \in 1..Len(notified) :
        ( /\ notified[n].type = "modified"
          /\ Preceding(n) # 0
          /\ notified[n].data.status # notified[Preceding(n)].data.status )
        => LET changed == CallsFor(n, Kind(notified[n].coll, "status_changed"))
               updated == CallsFor(n, Kind(notified[n].coll, "updated"))
           IN  /\ Cardinality(changed) <= 1
               /\ Cardinality(updated) <= 1
               /\ \A k \in changed :
                    /\ dispatched[k].args.data.previousStatus
                         = notified[Preceding(n)].data.status
                    /\ dispatched[k].args.data.newStatus = notified[n].data.status
               /\ Quiescent => (Cardinality(changed) = 1 /\ Cardinality(updated) = 1)

(***************************************************************************)
(* C15: for every 'modified' notification of a proposal whose              *)
(* pipelineStatus differs from the previously observed pipelineStatus      *)
(* while its status is unchanged, the Monitor makes exactly one            *)
(* pipeline_status_changed Dispatcher call, with previousStatus equal to   *)
(* the previous pipelineStatus, newStatus equal to the current one and the *)
(* proposal id as throttle entity id, exactly one proposal_updated call    *)
(* and no proposal_status_changed call.                                    *)
(***************************************************************************)
PipelineChangedOnly(n) ==
    /\ notified[n].coll = "proposals"
    /\ notified[n].type = "modified"
    /\ Preceding(n) # 0
    /\ notified[n].data.status = notified[Preceding(n)].data.status
    /\ notified[n].data.pipelineStatus
         # notified[Preceding(n)].data.pipelineStatus

C15_PipelineChangeDispatchedOnce ==
    \A n \in 1..Len(notified) :
        PipelineChangedOnly(n)
        => LET pipeline == CallsFor(n, "pipeline_status_changed")
               updated  == CallsFor(n, "proposal_updated")
           IN  /\ Cardinality(pipeline) <= 1
               /\ Cardinality(updated) <= 1
               /\ CallsFor(n, "proposal_status_changed") = {}
               /\ \A k \in pipeline :
                    /\ dispatched[k].args.entityId = notified[n].id
                    /\ dispatched[k].args.data.previousStatus
                         = notified[Preceding(n)].data.pipelineStatus
                    /\ dispatched[k].args.data.newStatus
                         = notified[n].data.pipelineStatus
               /\ Quiescent => (Cardinality(pipeline) = 1 /\ Cardinality(updated) = 1)

(***************************************************************************)
(* C16: in every reachable state the Monitor holds live subscriptions on   *)
(* 'clients' and 'proposals' only if the owning context is mounted and the *)
(* role of the current session user is manager or admin, and it never      *)
(* holds more than one live subscription per collection, across every      *)
(* sequence of login, logout, role change and user-object change.          *)
(***************************************************************************)
C16_SubscriptionsOnlyWhileAuthorized ==
    /\ listeners # {} => (mounted /\ user.role \in {"manager", "admin"})
    /\ \A l1 \in listeners, l2 \in listeners : l1.coll = l2.coll => l1 = l2

(***************************************************************************)
(* C17: once authorization is lost or the owning context is torn down the  *)
(* subscriptions are detached and the Monitor makes no further Dispatcher  *)
(* call, not even from a handler started before the detach: no            *)
(* subscription stays attached past the loss, and every Dispatcher call is *)
(* made while the context is mounted and the session is authorized.        *)
(***************************************************************************)
C17_NoDispatchAfterDetach ==
    /\ (~mounted \/ ~IsAuthorized(user)) => listeners = {}
    /\ \A k \in 1..Len(dispatched) : dispatched[k].authorized

(***************************************************************************)
(* C18: for each monitored collection the Dispatcher calls are made in the *)
(* order in which the subscription delivered the change notifications: if  *)
(* notification A was delivered before notification B, every call caused   *)
(* by A is made before every call caused by B.                             *)
(***************************************************************************)
C18_CallsInNotificationOrder ==
    \A k1 \in 1..Len(dispatched), k2 \in 1..Len(dispatched) :
        ( /\ k1 < k2
          /\ notified[dispatched[k1].notif].coll
               = notified[dispatched[k2].notif].coll )
        => dispatched[k1].notif <= dispatched[k2].notif

(***************************************************************************)
(* C19: whenever no handler is in flight, the stored snapshot of every     *)
(* observed record id equals the record state carried by the most recently *)
(* delivered 'added' or 'modified' notification for that id (the handler   *)
(* of an older notification never overwrites the snapshot written for a    *)
(* newer one).  Compared on the fields the notification carries (a client  *)
(* record as the handler holds it, its document numbers masked), and       *)
(* stated for the behaviours in which no Dispatcher call is rejected (C3): *)
(* a rejected call leaves the snapshot unwritten.                          *)
(***************************************************************************)
Latest(n) ==
    /\ notified[n].type \in {"added", "modified"}
    /\ \A m \in (n + 1)..Len(notified) : Preceding(m) # n

Carried(n) ==
    IF notified[n].coll = "clients" THEN Redacted(notified[n].data)
    ELSE notified[n].data

StoredFor(n) ==
    MapGet(IF notified[n].coll = "clients" THEN previousClientStates
           ELSE previousProposalStates, notified[n].id)

C19_SnapshotIsLatestNotification ==
    (Quiescent /\ NoRejection) =>
    \A n \in 1..Len(notified) :
        Latest(n)
        => /\ StoredFor(n) # NoState
           /\ StoredFor(n).id = notified[n].id
           /\ \A f \in DOMAIN Carried(n) :
                 /\ f \in DOMAIN StoredFor(n)
                 /\ StoredFor(n)[f] = Carried(n)[f]

(***************************************************************************)
(* C20: while handling one 'modified' notification the Monitor invokes the *)
(* *_updated operation unconditionally (once, whatever the comparison      *)
(* found) and only after the *_status_changed and pipeline_status_changed  *)
(* calls of that notification have completed; for proposals the order is   *)
(* proposal_status_changed, pipeline_status_changed, proposal_updated.     *)
(***************************************************************************)
Conditional(n) ==
    CallsFor(n, Kind(notified[n].coll, "status_changed"))
    \cup CallsFor(n, "pipeline_status_changed")

C20_UpdatedUnconditionalAndLast ==
    \A n \in 1..Len(notified) :
        notified[n].type = "modified"
        => LET updated == CallsFor(n, Kind(notified[n].coll, "updated")) IN
           /\ Cardinality(updated) <= 1
           /\ Quiescent => Cardinality(updated) = 1
           /\ \A u \in updated, k \in Conditional(n) :
                 k < u /\ dispatched[k].state # "pending"
           /\ \A k1 \in CallsFor(n, "proposal_status_changed"),
                 k2 \in CallsFor(n, "pipeline_status_changed") :
                 k1 < k2 /\ dispatched[k1].state # "pending"

(***************************************************************************)
(* C21: when a 'modified' notification is handled for a record id that has *)
(* no stored snapshot, the Monitor makes no *_status_changed and no        *)
(* pipeline_status_changed call for it, makes exactly one *_updated call,  *)
(* and stores the current record as the snapshot once that call is over.   *)
(***************************************************************************)
SnapshotMapNext(coll) ==
    IF coll = "clients" THEN previousClientStates' ELSE previousProposalStates'

C21_ModifiedWithoutSnapshot ==
    [][ \A hid \in 1..Len(handlers) :
          LET h == handlers[hid] IN
          (h.pc = "awaitUpdated" /\ h.prev = NoState)
          => LET n == h.changes[h.idx].n IN
             /\ Conditional(n) = {}
             /\ Cardinality(CallsFor(n, Kind(h.coll, "updated"))) = 1
             /\ handlers'[hid] # h
                  => MapGet(SnapshotMapNext(h.coll), h.data.id) = h.data ]_vars

(***************************************************************************)
(* C22: a send() call, once begun, eventually completes provided the       *)
(* configuration read and every HTTP request it issues eventually respond  *)
(* or fail; and all HTTP requests of one send() are issued before any of   *)
(* their responses is awaited: from the moment the call fans out, every    *)
(* eligible destination that is neither throttled nor failed before its    *)
(* request has its request issued, whether or not another has answered.    *)
(***************************************************************************)
AllIssued(c) ==
    calls[c].pc \in {"awaitHttp", "done"}
    => \A i \in 1..Len(calls[c].enabled) :
          calls[c].branches[i] \notin {"throttled", "threw"}
          => \E p \in posts : p.call = c /\ p.idx = i

C22_SendCompletesAndFansOutFirst ==
    /\ \A c \in Calls : (calls[c].pc # "idle") ~> (calls[c].pc = "done")
    /\ [](\A c \in Calls : AllIssued(c))

\* both requests of one call were issued, the second destination has
\* answered and the first has not
C22_Witness ==
    \E c \in Calls :
        /\ Len(calls[c].branches) = 2
        /\ calls[c].branches[1] = "inflight"
        /\ calls[c].branches[2] \in {"true", "false"}
        /\ \A i \in 1..2 : \E p \in posts : p.call = c /\ p.idx = i
        /\ \E r \in responses : r.call = c /\ r.idx = 2

(***************************************************************************)
(* C23: for a proposal notification, a failed or empty lookup of the       *)
(* referenced client or bank never raises and never prevents the event:    *)
(* the callback goes on to the bank lookup or to the Dispatcher call of    *)
(* the notification, and the record it sends carries the denormalized      *)
(* fields as the stored record had them unless the lookup found the        *)
(* referenced record.                                                      *)
(***************************************************************************)
LookupFinds(h) ==
    IF h.pc = "lookupClient" THEN h.data.clientId \in DOMAIN docs.clients
    ELSE h.data.bankId \in DOMAIN Banks

Awaits ==
    { "awaitCreated", "awaitStatusChanged", "awaitPipeline", "awaitUpdated" }

C23_LookupFailureKeepsEvent ==
    [][ \A hid \in 1..Len(handlers) :
          LET h  == handlers[hid]
              h2 == handlers'[hid]
          IN  (h.pc \in {"lookupClient", "lookupBank"} /\ h2 # h)
              => /\ h2.pc # "aborted"
                 /\ h2.data = h.data
                      \/ (LookupFinds(h) /\ h2.data = Enriched(h, "found"))
                 /\ ~LookupFinds(h) => h2.data = h.data
                 /\ h.changes[h.idx].type \in {"added", "modified"}
                      => /\ h2.idx = h.idx
                         /\ h2.pc \in Awaits \cup {"lookupBank"}
                         /\ h.pc = "lookupClient" /\ Truthy(h.data, "bankId")
                              => h2.pc = "lookupBank"
                         /\ h2.pc \in Awaits
                              => /\ Len(dispatched') = Len(dispatched) + 1
                                 /\ dispatched'[Len(dispatched')].notif
                                      = h.changes[h.idx].n
                                 /\ dispatched'[Len(dispatched')].handler = hid
                                 /\ h2.pc \in {"awaitCreated", "awaitUpdated",
                                               "awaitStatusChanged"}
                                      => \A f \in DOMAIN h2.data :
                                           dispatched'[Len(dispatched')]
                                             .args.data[f] = h2.data[f] ]_vars

\* a proposal naming a client and the bank b1 was sent after both lookups
\* came back without a record (failed, or found nothing): no name was added
C23_Witness ==
    \E k \in 1..Len(dispatched) :
        LET d == dispatched[k].args.data IN
        /\ dispatched[k].op \in {"sendProposalCreated", "sendProposalUpdated"}
        /\ HasField(d, "bankId") /\ ~HasField(d, "bankName")
        /\ HasField(d, "clientId") /\ ~HasField(d, "clientName")

(***************************************************************************)
(* C24: the per-collection snapshot maps are changed only by the Monitor's *)
(* own notification handlers (a handler resuming after its Dispatcher call *)
(* stores a record) and are emptied on resubscription, when the effect     *)
(* attaches new listeners, and at no other time.                           *)
(***************************************************************************)
Resubscribed == counters'.listeners > counters.listeners

HandlerStored ==
    \E k \in 1..Len(dispatched) :
        /\ dispatched[k].state = "pending"
        /\ dispatched'[k].state = "resolved"

C24_MapsResetOnResubscription ==
    [][ /\ Resubscribed
          => (previousClientStates' = << >> /\ previousProposalStates' = << >>)
        /\ ( /\ ~Resubscribed
             /\ << previousClientStates, previousProposalStates >>
                  # << previousClientStates', previousProposalStates' >> )
          => /\ HandlerStored
             /\ \A id \in DOMAIN previousClientStates :
                  id \in DOMAIN previousClientStates'
             /\ \A id \in DOMAIN previousProposalStates :
                  id \in DOMAIN previousProposalStates' ]_vars

(***************************************************************************)
(* C25: a 'removed' notification for a client or proposal causes no        *)
(* Dispatcher call, and its delivery leaves the stored snapshot of that    *)
(* record id unchanged (the snapshot is never deleted).                    *)
(***************************************************************************)
Removed(ns, n) == ns[n].type = "removed"

C25_RemovedIsIgnored ==
    [][ /\ \A n \in 1..Len(notified') :
             Removed(notified', n)
             => \A k \in 1..Len(dispatched') : dispatched'[k].notif # n
        /\ (\E n \in (Len(notified) + 1)..Len(notified') : Removed(notified', n))
             => /\ previousClientStates' = previousClientStates
                /\ previousProposalStates' = previousProposalStates
        /\ \A hid \in 1..Len(handlers) :
             LET h == handlers[hid] IN
             ( /\ h.idx <= Len(h.changes)
               /\ h.changes[h.idx].type = "removed"
               /\ handlers'[hid] # h )
             => /\ previousClientStates' = previousClientStates
                /\ previousProposalStates' = previousProposalStates
        /\ \A id \in DOMAIN previousClientStates :
             id \in DOMAIN previousClientStates'
        /\ \A id \in DOMAIN previousProposalStates :
             id \in DOMAIN previousProposalStates' ]_vars

\* the record p1 was removed after its snapshot was stored: the snapshot is
\* still there and the removal was followed by no call
C25_Witness ==
    \E n \in 1..Len(notified) :
        /\ notified[n].type = "removed"
        /\ notified[n].coll = "proposals"
        /\ notified[n].id \in DOMAIN previousProposalStates
        /\ notified[n].id \notin DOMAIN docs.proposals
        /\ Quiescent

(***************************************************************************)
(* C26: a send() is served the cached configuration only when the cached   *)
(* list is non-empty and was fetched less than 5 minutes ago; an empty     *)
(* result (no destination configured, or a failed read) is never served    *)
(* from the cache, so every send() that finds an empty list and no fetch   *)
(* in flight starts a new store read.                                      *)
(***************************************************************************)
Begins(c) == calls[c].pc = "idle" /\ calls'[c].pc # "idle"

StartsRead(c) ==
    /\ calls'[c].pc = "getDocs"
    /\ Len(storeLog') = Len(storeLog) + 1
    /\ storeLog'[Len(storeLog')].ev = "getDocs"
    /\ storeLog'[Len(storeLog')].call = c

C26_CacheServedOnlyIfNonEmptyAndFresh ==
    [][ \A c \in Calls :
          Begins(c)
          => /\ calls'[c].pc = "resolved"
                  => /\ Len(configs) > 0
                     /\ now - lastFetch < 5 * 60 * 1000
                     /\ calls'[c].cfgs = configs
                     /\ storeLog' = storeLog
             /\ (Len(configs) = 0 /\ fetchPromise = 0) => StartsRead(c)
             /\ (now - lastFetch >= 5 * 60 * 1000 /\ fetchPromise = 0)
                  => StartsRead(c) ]_vars

\* a fetch came back empty, and a call begun less than 5 minutes later, with
\* no fetch in flight, started a store read of its own
C26_Witness ==
    \E i, j \in 1..Len(storeLog) :
        /\ i < j
        /\ storeLog[i].ev = "fetched" /\ storeLog[i].n = 0
        /\ storeLog[j].ev = "getDocs"
        /\ storeLog[j].call # storeLog[i].call
        /\ storeLog[j].t - storeLog[i].t < 5 * 60 * 1000

(***************************************************************************)
(* C27: a send suppressed by throttling leaves the throttle timestamp of   *)
(* its key unchanged (the window is fixed from the last real attempt, not  *)
(* sliding): a call made at least the throttle interval after the last     *)
(* real attempt for its key is not suppressed, however many calls were     *)
(* suppressed in between.  For a destination whose throttle is disabled no *)
(* call is ever suppressed and no throttle timestamp is written.           *)
(***************************************************************************)
FansOut(c) ==
    /\ calls[c].pc = "resolved"
    /\ calls'[c].pc \in {"awaitHttp", "done"}
    /\ Len(calls'[c].branches) > 0

\* every real attempt made so far for the key of destination D in call c
\* is at least D's interval old
IntervalElapsed(c, D) ==
    \A p \in posts :
        ( /\ p.id = D.id
          /\ p.body.event = calls[c].eventType
          /\ calls[p.call].entityId = calls[c].entityId )
        => now - p.body.timestamp >= D.throttle.interval * 1000

C27_SuppressedCallLeavesWindow ==
    [][ \A c \in WindowCalls :
          FansOut(c)
          => \A i \in 1..Len(calls'[c].branches) :
               LET D   == calls'[c].enabled[i]
                   key == EventKey(D, calls[c].eventType, calls[c].entityId)
               IN  HasField(D, "throttle")
                   => /\ calls'[c].branches[i] = "throttled"
                           => /\ D.throttle.enabled
                              /\ key \in DOMAIN lastEventTimes
                              /\ lastEventTimes'[key] = lastEventTimes[key]
                              /\ ~\E p \in posts' : p.call = c /\ p.idx = i
                      /\ (D.throttle.enabled /\ IntervalElapsed(c, D))
                           => /\ calls'[c].branches[i] = "inflight"
                              /\ lastEventTimes'[key] = now
                      /\ ~D.throttle.enabled
                           => /\ calls'[c].branches[i] = "inflight"
                              /\ key \notin DOMAIN lastEventTimes' ]_vars

\* call c made a real attempt to destination id at time t
AttemptAt(c, id, t) ==
    \E p \in posts : p.call = c /\ p.id = id /\ p.body.timestamp = t

\* three calls of one key against a destination A with a 200 s throttle and
\* a destination B with its throttle off: the first attempted A, the second
\* (150 s later) was suppressed for A, the third (300 s after the first)
\* attempted A and stamped its key; every call attempted B and B's key was
\* never written
C27_Witness ==
    \E a, b, c \in WindowCalls :
        /\ calls[a].eventType = calls[b].eventType
        /\ calls[b].eventType = calls[c].eventType
        /\ calls[a].entityId = calls[b].entityId
        /\ calls[b].entityId = calls[c].entityId
        /\ calls[a].pc = "done" /\ calls[b].pc = "done" /\ calls[c].pc = "done"
        /\ Len(calls[c].enabled) = 2
        /\ LET A    == calls[c].enabled[1]
               B    == calls[c].enabled[2]
               keyA == EventKey(A, calls[c].eventType, calls[c].entityId)
               keyB == EventKey(B, calls[c].eventType, calls[c].entityId)
           IN  /\ A.throttle.enabled /\ ~B.throttle.enabled
               /\ calls[a].at < calls[b].at /\ calls[b].at < calls[c].at
               /\ calls[b].at - calls[a].at < A.throttle.interval * 1000
               /\ calls[c].at - calls[a].at >= A.throttle.interval * 1000
               /\ AttemptAt(a, A.id, calls[a].at)
               /\ calls[b].branches[1] = "throttled"
               /\ ~\E p \in posts : p.call = b /\ p.id = A.id
               /\ AttemptAt(c, A.id, calls[c].at)
               /\ lastEventTimes[keyA] = calls[c].at
               /\ \A d \in {a, b, c} : AttemptAt(d, B.id, calls[d].at)
               /\ keyB \notin DOMAIN lastEventTimes

(***************************************************************************)
(* C28: after the cached configuration has expired, a failed configuration *)
(* read replaces the cached destination list with the empty list (the      *)
(* stale list is not reused): the sends that get it return false with no   *)
(* HTTP call, and the next send reads the store again, until a read        *)
(* succeeds with a non-empty result.                                       *)
(***************************************************************************)
ReadFails(c) ==
    /\ calls[c].pc \in {"getDocs", "getDoc"}
    /\ Len(storeLog') = Len(storeLog) + 1
    /\ storeLog'[Len(storeLog')].ev = "fetched"
    /\ storeLog'[Len(storeLog')].call = c
    /\ ~storeLog'[Len(storeLog')].ok

C28_FailedReadEmptiesCache ==
    [][ /\ \A c \in Calls :
             ReadFails(c)
             => /\ configs' = << >>
                /\ calls'[c].cfgs = << >>
                /\ \A d \in Calls :
                     (calls[d].pc = "awaitFetch" /\ calls[d].joined = c)
                     => calls'[d].cfgs = << >>
        /\ \A c \in Calls :
             (calls'[c].pc = "done" /\ calls'[c].cfgs = << >>)
             => /\ calls'[c].result = "false"
                /\ ~\E p \in posts' : p.call = c
        /\ \A c \in Calls :
             (Begins(c) /\ configs = << >> /\ fetchPromise = 0)
             => StartsRead(c) ]_vars

\* a list of destinations was cached, it expired, the read of the next call
\* failed: the cache is empty and that call returned false without a request
C28_Witness ==
    \E j, k \in 1..Len(storeLog) :
        /\ j < k
        /\ storeLog[j].ev = "fetched" /\ storeLog[j].n > 0
        /\ storeLog[k].ev = "fetched" /\ ~storeLog[k].ok
        /\ storeLog[k].t - storeLog[j].t >= 5 * 60 * 1000
        /\ k = Len(storeLog)
        /\ configs = << >>
        /\ calls[storeLog[k].call].pc = "done"
        /\ calls[storeLog[k].call].result = "false"
        /\ ~\E p \in posts : p.call = storeLog[k].call

(***************************************************************************)
(* C29: the Monitor replaces a record's stored snapshot after handling a   *)
(* notification whatever the Dispatcher returned, so a status transition   *)
(* whose *_status_changed call has returned (true or false: the handler    *)
(* discards the result) is never dispatched again by a later modification  *)
(* that carries the same status.                                           *)
(***************************************************************************)
SameStatusSince(n, m) ==
    /\ n < m
    /\ notified[m].coll = notified[n].coll
    /\ notified[m].id = notified[n].id
    /\ notified[m].type = "modified"
    /\ \A o \in n..m :
         (notified[o].coll = notified[n].coll /\ notified[o].id = notified[n].id)
         => /\ notified[o].type = "modified"
            /\ notified[o].data.status = notified[n].data.status

C29_ReturnedTransitionNotRedispatched ==
    NoRejection =>
    \A n \in 1..Len(notified), m \in 1..Len(notified) :
        ( /\ SameStatusSince(n, m)
          /\ \E k \in CallsFor(n, Kind(notified[n].coll, "status_changed")) :
               dispatched[k].state = "resolved" )
        => CallsFor(m, Kind(notified[m].coll, "status_changed")) = {}

(***************************************************************************)
(* C30: the number of *_created Dispatcher calls made for a record id      *)
(* equals the number of 'added' notifications delivered for it (never      *)
(* more, and as many once the callbacks have run): the snapshot map is not *)
(* consulted on addition, so each resubscription, which delivers every     *)
(* existing record as 'added' again, produces one further *_created call   *)
(* per record.                                                             *)
(***************************************************************************)
AddedFor(coll, id) ==
    { n \in 1..Len(notified) :
        /\ notified[n].coll = coll
        /\ notified[n].id = id
        /\ notified[n].type = "added" }

CreatedFor(coll, id) ==
    { k \in 1..Len(dispatched) :
        /\ dispatched[k].args.eventType = Kind(coll, "created")
        /\ dispatched[k].args.entityId = id }

C30_CreatedCallsEqualAddedNotifications ==
    \A coll \in {"clients", "proposals"} :
        \A id \in { notified[n].id : n \in 1..Len(notified) } :
            /\ Cardinality(CreatedFor(coll, id)) <= Cardinality(AddedFor(coll, id))
            /\ Quiescent
                 => Cardinality(CreatedFor(coll, id))
                      = Cardinality(AddedFor(coll, id))

====
